---- MODULE Spec2Model ----
(***************************************************************************)
(* A model of the HPS decoder pipeline of hpsdecode: the XML envelope      *)
(* loader (loader.py), the CE decryption layer (schemas/ce.py) and the     *)
(* per-corner UV parser (texture.py).                                      *)
(*                                                                         *)
(* Strings are sequences of code points and byte strings are sequences of  *)
(* byte values, so ISO-8859-1 maps one onto the other value by value.      *)
(* Python's None, where a string or byte string is expected, is the        *)
(* one-element sequence None, which no string equals.                      *)
(***************************************************************************)
EXTENDS Integers, Sequences, FiniteSets, TLC

VARIABLES
    kProps,     \* ce.py: the properties map handed to _derive_key
    kBase,      \* ce.py: the key returned by the key provider
    kOther,     \* a second PackageLockList value, hashed for comparison
    kPc,        \* position of the key derivation: "idle", "start", "done"
    kKey,       \* ce.py: the result of _derive_key
    kHash,      \* ce.py: the result of _compute_package_lock_hash(kProps)
    kHashOther  \* ce.py: the same for kOther

keyVars == <<kProps, kBase, kOther, kPc, kKey, kHash, kHashOther>>

VARIABLES
    dElem,      \* loader.py: one XML element carrying a base64 payload
    dKey,       \* ce.py: the derived key handed to _decrypt_data
    dPc,        \* "idle", "start", "extracted", "done" or "error"
    dBlob,      \* loader.py: the result of extract_binary_data
    dOut        \* ce.py: the result of _decrypt_data

decVars == <<dElem, dKey, dPc, dBlob, dOut>>

VARIABLES
    env,        \* the XML envelope and the encryption_key argument of load_hps
    lPc,        \* position within load_hps and the schema parser it calls
    lErr,       \* the exception load_hps raised, "none" while it runs
    lTrace,     \* the element lookups and base64 decodes done so far
    loc,        \* loader.py: the local variables of load_hps
    ctx,        \* loader.py: the ParseContext handed to the parser
    ce,         \* ce.py: the local variables of CESchemaParser.parse
    result,     \* the mesh of the ParseResult returned by parser.parse
    ret         \* the mesh load_hps returned, NoMesh until it returns

loadVars == <<env, lPc, lErr, lTrace, loc, ctx, ce, result, ret>>

VARIABLES
    uvData,     \* texture.py: the data argument of parse_texture_coords
    uvVerts,    \* num_vertices
    uvFaces,    \* faces, one triple of vertex indices per face
    uvPc,       \* "idle", "start", "loop", "returned" or "raised"
    uvErr,      \* the exception raised, "none" otherwise
    uvPos,      \* BinaryReader: the number of bytes consumed
    uvVertex,   \* vertex_idx, the loop variable
    uvCorners,  \* vertex_corners
    uvs,        \* the UV array
    uvFlags     \* the flag bytes read so far

uvVars == <<uvData, uvVerts, uvFaces, uvPc, uvErr, uvPos, uvVertex, uvCorners, uvs, uvFlags>>

VARIABLES
    cWord,      \* texture.py: the compressed argument of decompress_texture_coord
    cPc,        \* "idle", "start" or "done"
    cUV         \* the (u, v) it returned

coordVars == <<cWord, cPc, cUV>>

VARIABLES
    rData,      \* binary.py: the bytes the BinaryReader was constructed on
    rByte,      \* the number of bytes before the current byte
    rBit,       \* the number of bits of the current byte already consumed
    rPc,        \* "idle", "ready" or "raised"
    rErr,       \* the exception the last call raised, "none" otherwise
    rLast,      \* the last call: its name, argument, result and the
                \* position reported before and after it
    rStream,    \* the results of the calls so far, concatenated, while
                \* they were all read_bits calls
    rOnlyBits   \* TRUE while every call so far was a read_bits call

readerVars == <<rData, rByte, rBit, rPc, rErr, rLast, rStream, rOnlyBits>>

VARIABLES
    sCmds,      \* the CC face stream: its opcodes
    sCount,     \* the vertex count of the context
    sPos,       \* the number of opcodes interpreted so far
    sSt         \* the strip state and the faces emitted so far

stripVars == <<sCmds, sCount, sPos, sSt>>

VARIABLES
    fcFaces,    \* texture.py: mesh.faces handed to face_colors_to_vertex_colors
    fcColors,   \* mesh.face_colors, one (R, G, B) per face
    fcVerts,    \* mesh.num_vertices
    fcPc,       \* "idle", "loop", "divide" or "done"
    fcFace,     \* the number of faces the loop has accumulated
    fcSums,     \* vertex_colors: the per-vertex channel sums
    fcCounts,   \* vertex_counts
    fcOut       \* the returned array

colorVars == <<fcFaces, fcColors, fcVerts, fcPc, fcFace, fcSums, fcCounts, fcOut>>

VARIABLES
    duVerts,    \* texture.py: the vertices argument of deduplicate_vertices_for_uv
    duFaces,    \* the faces argument
    duUV,       \* the uv_coords argument: three (u, v) per face
    duPc,       \* "idle", "loop" or "done"
    duFace,     \* the number of faces the loop has handled
    duSt,       \* vertex_uv_map, new_vertices, new_uvs and new_faces
    duOut       \* the returned arrays

dedupVars == <<duVerts, duFaces, duUV, duPc, duFace, duSt, duOut>>

VARIABLES
    kaArg,      \* __main__.py: the key_arg argument of load_encryption_key, or None
    kaEnv,      \* the value of HPS_ENCRYPTION_KEY in the environment, or None
    kaPc,       \* "idle", "call" or "done"
    kaOut,      \* the returned bytes, or None
    kaErr       \* "none" or the exception that left the function

argVars == <<kaArg, kaEnv, kaPc, kaOut, kaErr>>

VARIABLES
    xVia,       \* the entry point: "HPSMesh.export", "export_mesh" or "exporter" (constructed directly)
    xMesh,      \* what the mesh has: vertex colours, face colours, texture images, UVs
    xPath,      \* output_path: its stem and its suffix
    xFormat,    \* export_format: "stl", "obj", "ply" or None
    xOpts,      \* binary, include_colors, include_textures and material
    xPc,        \* "idle", "call", "export" or "done"
    xExporter,  \* the exporter that was constructed
    xFiles,     \* the files written
    xErr        \* "none" or the exception that left the call

exportVars == <<xVia, xMesh, xPath, xFormat, xOpts, xPc, xExporter, xFiles, xErr>>

VARIABLES
    cliPc,        \* __main__.py: the position within export_command
    cliExit,      \* the exit code returned, or NoInt
    cliStderr,    \* whether a diagnostic was printed on standard error
    cliUncaught,  \* "none" or the exception that left export_command
    cliWritten    \* whether the output file was written

cliVars == <<cliPc, cliExit, cliStderr, cliUncaught, cliWritten>>

vars == <<keyVars, decVars, loadVars, uvVars, coordVars, readerVars, stripVars, colorVars, dedupVars, argVars, exportVars, cliVars>>

\* What the steps of one part leave alone: the variables of the other parts.
notKeyVars == <<decVars, loadVars, uvVars, coordVars, readerVars, stripVars, colorVars, dedupVars, argVars, exportVars, cliVars>>
notDecVars == <<keyVars, loadVars, uvVars, coordVars, readerVars, stripVars, colorVars, dedupVars, argVars, exportVars, cliVars>>
notLoadVars == <<keyVars, decVars, uvVars, coordVars, readerVars, stripVars, colorVars, dedupVars, argVars, exportVars, cliVars>>
notUVVars == <<keyVars, decVars, loadVars, coordVars, readerVars, stripVars, colorVars, dedupVars, argVars, exportVars, cliVars>>
notCoordVars == <<keyVars, decVars, loadVars, uvVars, readerVars, stripVars, colorVars, dedupVars, argVars, exportVars, cliVars>>
notReaderVars == <<keyVars, decVars, loadVars, uvVars, coordVars, stripVars, colorVars, dedupVars, argVars, exportVars, cliVars>>
notStripVars == <<keyVars, decVars, loadVars, uvVars, coordVars, readerVars, colorVars, dedupVars, argVars, exportVars, cliVars>>
notColorVars == <<keyVars, decVars, loadVars, uvVars, coordVars, readerVars, stripVars, dedupVars, argVars, exportVars, cliVars>>
notDedupVars == <<keyVars, decVars, loadVars, uvVars, coordVars, readerVars, stripVars, colorVars, argVars, exportVars, cliVars>>
notArgVars == <<keyVars, decVars, loadVars, uvVars, coordVars, readerVars, stripVars, colorVars, dedupVars, exportVars, cliVars>>
notExportVars == <<keyVars, decVars, loadVars, uvVars, coordVars, readerVars, stripVars, colorVars, dedupVars, argVars, cliVars>>
notCliVars == <<keyVars, decVars, loadVars, uvVars, coordVars, readerVars, stripVars, colorVars, dedupVars, argVars, exportVars>>
notCliLoadVars == <<keyVars, decVars, uvVars, coordVars, readerVars, stripVars, colorVars, dedupVars, argVars, exportVars>>

None == <<-1>>

----------------------------------------------------------------------------
(* Bounds *)

MaxLockLen == 3
MaxBlocks == 2
MaxVerts == 3
MaxFaces == 2
MaxFaceCmds == 2
MaxImages == 2
MaxUVRecords == 3
MaxReaderBytes == 4
MaxSplines == 2
MaxStripCmds == 4
MaxColorFaces == 3
MaxDedupFaces == 3
MaxKeyLen == 4

----------------------------------------------------------------------------
(* Generic helpers *)

SeqsUpTo(S, n) == UNION {[1..k -> S] : k \in 0..n}

\* Python's ordering of str: by code point, a proper prefix first.
RECURSIVE StrLess(_, _)
StrLess(s, t) ==
    IF s = <<>> THEN t # <<>>
    ELSE IF t = <<>> THEN FALSE
    ELSE IF Head(s) # Head(t) THEN Head(s) < Head(t)
    ELSE StrLess(Tail(s), Tail(t))

\* sorted(S) for a set of strings.
RECURSIVE SortedStrs(_)
SortedStrs(S) ==
    IF S = {} THEN <<>>
    ELSE LET m == CHOOSE x \in S : \A y \in S \ {x} : StrLess(x, y)
         IN  <<m>> \o SortedStrs(S \ {m})

\* sep.join(list) for a one-character separator.
RECURSIVE Join(_, _)
Join(sep, list) ==
    IF list = <<>> THEN <<>>
    ELSE IF Len(list) = 1 THEN list[1]
    ELSE list[1] \o <<sep>> \o Join(sep, Tail(list))

\* value.split(sep): every segment between separators, empty ones included.
RECURSIVE SplitFrom(_, _, _)
SplitFrom(value, sep, cur) ==
    IF value = <<>> THEN <<cur>>
    ELSE IF Head(value) = sep THEN <<cur>> \o SplitFrom(Tail(value), sep, <<>>)
    ELSE SplitFrom(Tail(value), sep, Append(cur, Head(value)))

Split(value, sep) == SplitFrom(value, sep, <<>>)

SelectNonEmpty(list) == SelectSeq(list, LAMBDA item : item # <<>>)

SeqToSet(list) == {list[i] : i \in DOMAIN list}

RECURSIVE Flatten(_)
Flatten(ss) == IF ss = <<>> THEN <<>> ELSE Head(ss) \o Flatten(Tail(ss))

----------------------------------------------------------------------------
(* Code points used by the key derivation *)

SEMICOLON == 59
CharA == 97
CharB == 98
Digit1 == 49
Digit2 == 50

\* str.encode("iso-8859-1") / bytes.decode("iso-8859-1"): code point c <-> byte c.
Latin1Encode(s) == [i \in DOMAIN s |-> s[i] % 256]
Latin1Decode(b) == [i \in DOMAIN b |-> b[i]]

\* hashlib.md5(b).hexdigest().upper(), as a collision-free digest: the
\* letters "MD5" followed by the digested bytes stand for the 32 hex digits.
MD5HexUpper(b) == <<77, 68, 53>> \o b

HPS_ATTR_ENCRYPTION_KEY_ID == "EKID"
HPS_ATTR_PACKAGE_LOCK_LIST == "PackageLockList"
ENCRYPTION_KEY_ID_3SHAPE_INTERNAL == <<Digit1>>

\* properties.get(name)
PropGet(properties, name) ==
    IF name \in DOMAIN properties THEN properties[name] ELSE None

\* Python truthiness of an optional string.
Truthy(v) == v # None /\ v # <<>>

----------------------------------------------------------------------------
(* CESchemaParser._compute_package_lock_hash *)

Canonical_NoDedup(items) ==
    LET RECURSIVE Ins(_, _)
        Ins(x, l) == IF l = <<>> THEN <<x>>
                     ELSE IF StrLess(x, Head(l)) THEN <<x>> \o l
                     ELSE <<Head(l)>> \o Ins(x, Tail(l))
        RECURSIVE Srt(_)
        Srt(l) == IF l = <<>> THEN <<>> ELSE Ins(Head(l), Srt(Tail(l)))
    IN  Join(SEMICOLON, Srt(items)) \o <<SEMICOLON>>

Canonical(items) == Join(SEMICOLON, SortedStrs(SeqToSet(items))) \o <<SEMICOLON>>

_compute_package_lock_hash(properties) ==
    LET value == PropGet(properties, HPS_ATTR_PACKAGE_LOCK_LIST)
    IN  IF ~Truthy(value) THEN None
        ELSE LET items == SelectNonEmpty(Split(value, SEMICOLON))
             IN  IF items = <<>> THEN None
                 ELSE MD5HexUpper(Canonical(items))

----------------------------------------------------------------------------
(* CESchemaParser._derive_key *)

_derive_key_IgnoresEkid(properties, base_key) ==
    LET package_hash == _compute_package_lock_hash(properties)
    IN  IF Truthy(package_hash) THEN Latin1Encode(package_hash) ELSE base_key

_derive_key(properties, base_key) ==
    LET encryption_key_id == PropGet(properties, HPS_ATTR_ENCRYPTION_KEY_ID)
        package_hash == _compute_package_lock_hash(properties)
    IN  IF ~Truthy(encryption_key_id)
        THEN (IF Truthy(package_hash) THEN Latin1Encode(package_hash) ELSE base_key)
        ELSE IF encryption_key_id = ENCRYPTION_KEY_ID_3SHAPE_INTERNAL /\ Truthy(package_hash)
        THEN Latin1Encode(Latin1Decode(base_key) \o package_hash)
        ELSE base_key

----------------------------------------------------------------------------
(* Integers read from XML attributes *)

\* int() has no value for this string (ValueError).
BadInt == -2
\* Python's None where an int is expected.
NoInt == -1

IsDigit(c) == c \in 48..57

RECURSIVE DecimalValue(_, _)
DecimalValue(s, acc) ==
    IF s = <<>> THEN acc ELSE DecimalValue(Tail(s), acc * 10 + (Head(s) - 48))

\* int(s) for an attribute string: decimal digits, else ValueError.
ParseInt(s) ==
    IF s = <<>> \/ \E i \in DOMAIN s : ~IsDigit(s[i]) THEN BadInt
    ELSE DecimalValue(s, 0)

\* str(n) for n >= 0
RECURSIVE DecimalStr(_)
DecimalStr(n) == IF n < 10 THEN <<48 + n>> ELSE Append(DecimalStr(n \div 10), 48 + (n % 10))

----------------------------------------------------------------------------
(* encryption.py: BlowfishDecryptor and scramble_key *)

BLOCK_SIZE == 8

\* scramble_key: a fixed, length-determined, involutive permutation of the
\* key bytes; here the reversal.
RECURSIVE Reverse(_)
Reverse(s) == IF s = <<>> THEN <<>> ELSE Append(Reverse(Tail(s)), Head(s))

scramble_key(key) == Reverse(key)

\* One 64-bit block under the key: a keyed bijection on 8-byte blocks that
\* uses the key bytes in order, cycled over the block.
DecryptBlock(key, block) ==
    [i \in 1..BLOCK_SIZE |->
        (block[BLOCK_SIZE + 1 - i] + 256
            - (IF key = <<>> THEN 0 ELSE key[((i - 1) % Len(key)) + 1])) % 256]

RECURSIVE DecryptBlocks(_, _)
DecryptBlocks(key, data) ==
    IF Len(data) < BLOCK_SIZE THEN data
    ELSE DecryptBlock(key, SubSeq(data, 1, BLOCK_SIZE))
            \o DecryptBlocks(key, SubSeq(data, BLOCK_SIZE + 1, Len(data)))

Min(a, b) == IF a < b THEN a ELSE b

\* BlowfishDecryptor(key).decrypt(data, original_size)
BlowfishDecrypt(key, data, original_size) ==
    LET plain == DecryptBlocks(key, data)
    IN  IF original_size = NoInt THEN plain
        ELSE SubSeq(plain, 1, Min(original_size, Len(plain)))

----------------------------------------------------------------------------
(* loader.py: reading a payload element *)

\* An XML element with a base64 text.  text is "none" (no text), "padding"
\* (b64decode raises binascii.Error), "junk" (characters outside the
\* alphabet, which b64decode drops) or "ok"; bytes is what b64decode
\* returns; size and key are the attributes Base64EncodedBytes and Key
\* (None when absent).
Element(text, bytes, size, key) ==
    [text |-> text, bytes |-> bytes, size |-> size, key |-> key]

\* bytes, tagged so that isinstance(data, bytes) is ~enc
PlainBytes(data) ==
    [enc |-> FALSE, data |-> data, original_size |-> NoInt, use_scrambled_key |-> FALSE]

EncryptedData(data, original_size, use_scrambled_key) ==
    [enc |-> TRUE, data |-> data, original_size |-> original_size,
     use_scrambled_key |-> use_scrambled_key]

\* The exception decode_binary_element raises on the element, or "none".
decode_binary_element_error(element) ==
    IF element.text = "none" THEN "HPSParseError"
    ELSE IF element.text = "padding" THEN "binascii.Error"
    ELSE "none"

decode_binary_element(element) == element.bytes

should_scramble_key(element) == element.key # None

extract_original_size(element) ==
    IF Truthy(element.size) THEN ParseInt(element.size) ELSE NoInt

extract_encrypted_data(element) ==
    EncryptedData(decode_binary_element(element),
                  extract_original_size(element),
                  should_scramble_key(element))

extract_binary_data(element, is_encrypted) ==
    IF is_encrypted THEN extract_encrypted_data(element)
    ELSE PlainBytes(decode_binary_element(element))

\* The exception extract_binary_data raises, or "none".
extract_binary_data_error(element, is_encrypted) ==
    IF decode_binary_element_error(element) # "none"
    THEN decode_binary_element_error(element)
    ELSE IF is_encrypted /\ extract_original_size(element) = BadInt THEN "ValueError"
    ELSE "none"

----------------------------------------------------------------------------
(* CESchemaParser._decrypt_data *)

\* The key _decrypt_data uses for the blob.
decryption_key_Never(data, key) == key

decryption_key(data, key) ==
    IF data.use_scrambled_key THEN scramble_key(key) ELSE key

_decrypt_data_NoSize(data, key) ==
    IF ~data.enc THEN data.data
    ELSE BlowfishDecrypt(decryption_key(data, key), data.data, NoInt)

_decrypt_data(data, key) ==
    IF ~data.enc THEN data.data
    ELSE BlowfishDecrypt(decryption_key(data, key), data.data, data.original_size)

----------------------------------------------------------------------------
(* The key-derivation specification: properties and base key are inputs *)

LockListValues == SeqsUpTo({CharA, CharB, SEMICOLON}, MaxLockLen)
EkidValues == {<<>>, <<Digit1>>, <<Digit2>>}
BaseKeys == {<<7, 9>>, <<>>}

\* The properties maps: each of the two properties absent or present.
PropertyMaps ==
    {[n \in {} |-> <<>>]}
    \cup {[n \in {HPS_ATTR_ENCRYPTION_KEY_ID} |-> e] : e \in EkidValues}
    \cup {[n \in {HPS_ATTR_PACKAGE_LOCK_LIST} |-> l] : l \in LockListValues}
    \cup {[n \in {HPS_ATTR_ENCRYPTION_KEY_ID, HPS_ATTR_PACKAGE_LOCK_LIST} |->
              IF n = HPS_ATTR_ENCRYPTION_KEY_ID THEN e ELSE l]
            : e \in EkidValues, l \in LockListValues}

KeyIdle ==
    /\ kProps = [n \in {} |-> <<>>]
    /\ kBase = <<>>
    /\ kOther = None
    /\ kPc = "idle"
    /\ kKey = None
    /\ kHash = None
    /\ kHashOther = None

KeyInit ==
    /\ kProps \in PropertyMaps
    /\ kBase \in BaseKeys
    /\ kOther \in LockListValues \cup {None}
    /\ kPc = "start"
    /\ kKey = None
    /\ kHash = None
    /\ kHashOther = None

\* CESchemaParser.parse line 57: key = self._derive_key(context.properties)
DeriveKey ==
    /\ kPc = "start"
    /\ kKey' = _derive_key(kProps, kBase)
    /\ kHash' = _compute_package_lock_hash(kProps)
    /\ kPc' = "derived"
    /\ UNCHANGED <<kProps, kBase, kOther, kHashOther, notKeyVars>>

\* _compute_package_lock_hash on a properties map holding the second value
HashOther ==
    /\ kPc = "derived"
    /\ kHashOther' = _compute_package_lock_hash(
           IF kOther = None THEN [n \in {} |-> <<>>]
           ELSE [n \in {HPS_ATTR_PACKAGE_LOCK_LIST} |-> kOther])
    /\ kPc' = "done"
    /\ UNCHANGED <<kProps, kBase, kOther, kKey, kHash, notKeyVars>>

NextKey == DeriveKey \/ HashOther

----------------------------------------------------------------------------
(* The blob specification: one element is extracted and decrypted *)

BlockPool == {<<1, 2, 3, 4, 5, 6, 7, 8>>, <<9, 9, 0, 0, 250, 0, 3, 3>>}
TailPool == {<<>>, <<200>>, <<11, 12, 13, 14, 15, 16, 17>>}

\* Ciphertexts: up to MaxBlocks complete blocks and a partial block.
Ciphertexts ==
    {Flatten(bs) \o t : bs \in SeqsUpTo(BlockPool, MaxBlocks), t \in TailPool}

SizeAttrs ==
    {None, <<>>} \cup {DecimalStr(n) : n \in 0..(BLOCK_SIZE * MaxBlocks + BLOCK_SIZE)}

DecKeys == {<<3, 1, 4, 1>>, <<2, 7>>}

DecIdle ==
    /\ dElem = Element("none", <<>>, None, None)
    /\ dKey = <<>>
    /\ dPc = "idle"
    /\ dBlob = PlainBytes(<<>>)
    /\ dOut = None

DecInit ==
    /\ dElem \in {Element("ok", c, sz, k) :
                    c \in Ciphertexts, sz \in SizeAttrs, k \in {None, <<Digit1>>}}
    /\ dKey \in DecKeys
    /\ dPc = "start"
    /\ dBlob = PlainBytes(<<>>)
    /\ dOut = None

\* loader.py extract_binary_data, for an element of an encrypted or of an
\* unencrypted schema
ExtractBinaryData ==
    /\ dPc = "start"
    /\ \E is_encrypted \in BOOLEAN :
          /\ dBlob' = extract_binary_data(dElem, is_encrypted)
          /\ dPc' = IF extract_binary_data_error(dElem, is_encrypted) # "none"
                    THEN "error" ELSE "extracted"
    /\ UNCHANGED <<dElem, dKey, dOut, notDecVars>>

\* ce.py _decrypt_data
DecryptData ==
    /\ dPc = "extracted"
    /\ dOut' = _decrypt_data(dBlob, dKey)
    /\ dPc' = "done"
    /\ UNCHANGED <<dElem, dKey, dBlob, notDecVars>>

NextDec == ExtractBinaryData \/ DecryptData

----------------------------------------------------------------------------
(* zlib.adler32 and Python's int <-> bytes conversions *)

\* A 32-bit unsigned integer is the tuple of its four bytes, most
\* significant first.
RECURSIVE AdlerSums(_, _, _)
AdlerSums(data, a, b) ==
    IF data = <<>> THEN <<a, b>>
    ELSE LET a2 == (a + Head(data)) % 65521
         IN  AdlerSums(Tail(data), a2, (b + a2) % 65521)

\* zlib.adler32(data) & 0xFFFFFFFF
adler32(data) ==
    LET ab == AdlerSums(data, 1, 0)
    IN  <<ab[2] \div 256, ab[2] % 256, ab[1] \div 256, ab[1] % 256>>

\* x.to_bytes(4, "little") and int.from_bytes(bs, "big")
to_bytes_little(x) == Reverse(x)
from_bytes_big(bs) == bs

\* ce.py lines 61-62: the value compared with check_value
IntegrityValue_NotReversed(data) == adler32(data)

IntegrityValue(data) == from_bytes_big(to_bytes_little(adler32(data)))

----------------------------------------------------------------------------
(* The schema decoders (schemas/ca.py, schemas/cc.py) *)

NoMesh ==
    [num_vertices |-> -1, faces |-> <<>>, texture_images |-> <<>>,
     face_colors |-> <<>>, splines |-> <<>>]

NewStrip(raws) == [op |-> "NEW_STRIP", raw |-> raws]
Extend(raw) == [op |-> "EXTEND", raw |-> <<raw>>]
Restart == [op |-> "RESTART", raw |-> <<>>]

Max(a, b) == IF a > b THEN a ELSE b

\* One delta-coded index: raw 1 introduces a new vertex, larger values
\* reach back from the high-water mark.
DecodeIndex(hwm, raw) ==
    LET h == IF raw = 1 THEN hwm + 1 ELSE hwm
        idx == h + 1 - raw
    IN  [idx |-> idx, hwm |-> Max(h, idx)]

FaceState0 ==
    [hwm |-> -1, a |-> -1, b |-> -1, parity |-> 0, active |-> FALSE,
     faces |-> <<>>, err |-> "none"]

IndexOk_Unchecked(idx, vertex_count) == TRUE

IndexOk(idx, vertex_count) == 0 <= idx /\ idx < vertex_count

StripFace_NoParity(a, b, v, parity) == <<a, b, v>>

\* The face EXTEND(v) emits on the strip state (a, b, parity)
StripFace(a, b, v, parity) == IF parity = 0 THEN <<a, b, v>> ELSE <<b, a, v>>

\* One face-stream opcode applied to the strip state.
FaceStep(st, cmd, vertex_count) ==
    IF cmd.op = "NEW_STRIP" THEN
        LET d0 == DecodeIndex(st.hwm, cmd.raw[1])
            d1 == DecodeIndex(d0.hwm, cmd.raw[2])
            d2 == DecodeIndex(d1.hwm, cmd.raw[3])
        IN  IF \E d \in {d0, d1, d2} : ~IndexOk(d.idx, vertex_count)
            THEN [st EXCEPT !.err = "InvalidIndex"]
            ELSE [st EXCEPT !.hwm = d2.hwm, !.a = d1.idx, !.b = d2.idx,
                            !.parity = 0, !.active = TRUE,
                            !.faces = Append(@, <<d0.idx, d1.idx, d2.idx>>)]
    ELSE IF cmd.op = "EXTEND" THEN
        LET d == DecodeIndex(st.hwm, cmd.raw[1])
        IN  IF ~st.active THEN [st EXCEPT !.err = "NoActiveStrip"]
            ELSE IF ~IndexOk(d.idx, vertex_count)
            THEN [st EXCEPT !.err = "InvalidIndex"]
            ELSE [st EXCEPT !.hwm = d.hwm, !.a = st.b, !.b = d.idx,
                            !.parity = 1 - st.parity,
                            !.faces = Append(@, StripFace(st.a, st.b, d.idx, st.parity))]
    ELSE [st EXCEPT !.active = FALSE]

RECURSIVE DecodeFaces(_, _, _)
DecodeFaces(st, cmds, vertex_count) ==
    IF cmds = <<>> \/ st.err # "none" THEN st
    ELSE DecodeFaces(FaceStep(st, Head(cmds), vertex_count), Tail(cmds), vertex_count)

\* A packed colour 0xRRGGBB as the row (R, G, B).
UnpackRGB(c) == <<(c \div 65536) % 256, (c \div 256) % 256, c % 256>>

\* The face-colour sub-stream: runs of a length and one BGR triple, stored
\* as RGB rows.
RECURSIVE ExpandRuns(_)
ExpandRuns(runs) ==
    IF Len(runs) < 4 THEN <<>>
    ELSE [i \in 1..runs[1] |-> <<runs[4], runs[3], runs[2]>>]
            \o ExpandRuns(SubSeq(runs, 5, Len(runs)))

\* The face colours of a decoded mesh: the sub-stream when the face data
\* carries one, else the default colour on every face when it is set, else
\* none.
FaceColors(colors, default_face_color, num_faces) ==
    IF colors # None THEN ExpandRuns(colors)
    ELSE IF default_face_color # NoInt
    THEN [i \in 1..num_faces |-> UnpackRGB(default_face_color)]
    ELSE <<>>

\* CASchemaParser.parse / CCSchemaParser.parse on a context of plain blobs.
\* The vertex stream decodes to nv vertices (nv < 0: the stream is cut
\* short); the face stream is the opcode sequence the face blob encodes and
\* colors the colour sub-stream it carries, None for none.
DecodeMesh(context, nv, colors) ==
    LET fs == DecodeFaces(FaceState0, context.face_data, context.vertex_count)
    IN  IF nv < 0 THEN [err |-> "EOFError", mesh |-> NoMesh]
        ELSE IF fs.err # "none" THEN [err |-> fs.err, mesh |-> NoMesh]
        ELSE [err |-> "none",
              mesh |-> [num_vertices |-> nv, faces |-> fs.faces,
                        texture_images |-> context.texture_images,
                        face_colors |-> FaceColors(colors, context.default_face_color,
                                                   Len(fs.faces)),
                        splines |-> context.splines]]

----------------------------------------------------------------------------
(* schemas/__init__.py *)

SUPPORTED_SCHEMAS_NoCB == {"CA", "CC", "CE"}

SUPPORTED_SCHEMAS == {"CA", "CB", "CC", "CE"}

----------------------------------------------------------------------------
(* loader.py: load_hps *)

NoElement == Element("absent", <<>>, None, None)
NoBlob == PlainBytes(None)

TEXTURE_IMAGE_PATHS_ENCRYPTED == {1, 2, 3}
TEXTURE_IMAGE_PATHS_UNENCRYPTED == {4}

texture_paths_UnencryptedFirst == <<<<4, FALSE>>, <<1, TRUE>>, <<2, TRUE>>, <<3, TRUE>>>>

\* texture_paths, lines 344-347: the four paths in order, with encryptable
texture_paths == <<<<1, TRUE>>, <<2, TRUE>>, <<3, TRUE>>, <<4, FALSE>>>>

Loc0 ==
    [schema |-> "", is_encrypted |-> FALSE,
     vertex_data |-> NoBlob, face_data |-> <<>>,
     num_vertices |-> 0, num_faces |-> 0, check_value |-> None,
     default_face_color |-> None,
     vertex_colors_data |-> NoBlob, texture_coords_data |-> NoBlob,
     texture_images |-> <<>>, splines |-> <<>>]

Ctx0 ==
    [vertex_data |-> NoBlob, face_data |-> <<>>,
     vertex_count |-> 0, face_count |-> 0,
     default_face_color |-> NoInt,
     vertex_colors_data |-> NoBlob, texture_coords_data |-> NoBlob,
     texture_images |-> <<>>, splines |-> <<>>, check_value |-> None,
     properties |-> [n \in {} |-> <<>>]]

Ce0 ==
    [key |-> None, vertex |-> None, texture_coords |-> None,
     vertex_colors |-> None, texture_images |-> <<>>]

Raise(kind, events) ==
    /\ lPc' = "raised"
    /\ lErr' = kind
    /\ lTrace' = lTrace \o events

Goto(pc, events) ==
    /\ lPc' = pc
    /\ lErr' = lErr
    /\ lTrace' = lTrace \o events

\* lines 312-314: the Schema element and the supported-schema test
ReadSchema ==
    /\ lPc = "schema"
    /\ IF env.schema \in {"absent", "notext"}
       THEN Raise("HPSParseError", <<"find:Schema">>) /\ UNCHANGED loc
       ELSE IF env.schema \notin SUPPORTED_SCHEMAS
       THEN Raise("HPSSchemaError", <<"find:Schema">>) /\ UNCHANGED loc
       ELSE /\ Goto("elements", <<"find:Schema">>)
            /\ loc' = [loc EXCEPT !.schema = env.schema]
    /\ UNCHANGED <<env, ctx, ce, result, ret, notLoadVars>>

\* lines 316-320: is_encrypted and the three required elements
FindElements ==
    /\ lPc = "elements"
    /\ loc' = [loc EXCEPT !.is_encrypted = (loc.schema \in {"CE"})]
    /\ IF ~env.hasData
       THEN Raise("HPSParseError", <<"find:data">>)
       ELSE IF env.vertices = NoElement
       THEN Raise("HPSParseError", <<"find:data", "find:Vertices">>)
       ELSE IF env.facets = NoElement
       THEN Raise("HPSParseError", <<"find:data", "find:Vertices", "find:Facets">>)
       ELSE Goto("payloads", <<"find:data", "find:Vertices", "find:Facets">>)
    /\ UNCHANGED <<env, ctx, ce, result, ret, notLoadVars>>

\* lines 322-323: the vertex and the face payload
DecodePayloads ==
    /\ lPc = "payloads"
    /\ LET verr == extract_binary_data_error(env.vertices, loc.is_encrypted)
           ferr == decode_binary_element_error(env.facets)
       IN  IF verr # "none"
           THEN Raise(verr, <<"b64:Vertices">>) /\ UNCHANGED loc
           ELSE IF ferr # "none"
           THEN Raise(ferr, <<"b64:Vertices", "b64:Facets">>) /\ UNCHANGED loc
           ELSE /\ Goto("attributes", <<"b64:Vertices", "b64:Facets">>)
                /\ loc' = [loc EXCEPT
                      !.vertex_data = extract_binary_data(env.vertices, loc.is_encrypted),
                      !.face_data = decode_binary_element(env.facets)]
    /\ UNCHANGED <<env, ctx, ce, result, ret, notLoadVars>>

\* element.get(name, "0")
GetOrZero(attr) == IF attr = None THEN <<48>> ELSE attr

\* lines 325-329: the declared counts, check_value and the Facets colour
ReadAttributes ==
    /\ lPc = "attributes"
    /\ LET nv == ParseInt(GetOrZero(env.vertex_count))
           nf == ParseInt(GetOrZero(env.facet_count))
       IN  IF nv = BadInt \/ nf = BadInt
           THEN Raise("ValueError", <<>>) /\ UNCHANGED loc
           ELSE /\ Goto("optional", <<>>)
                /\ loc' = [loc EXCEPT !.num_vertices = nv, !.num_faces = nf,
                                      !.check_value = env.check_value,
                                      !.default_face_color = env.facets_color]
    /\ UNCHANGED <<env, ctx, ce, result, ret, notLoadVars>>

\* The blob of an optional element, None when the element is absent.
OptionalData(element, is_encrypted) ==
    IF element = NoElement THEN NoBlob ELSE extract_binary_data(element, is_encrypted)

OptionalError(element, is_encrypted) ==
    IF element = NoElement THEN "none" ELSE extract_binary_data_error(element, is_encrypted)

\* lines 331-339: the vertex colour set and the texture coordinates
OptionalElements ==
    /\ lPc = "optional"
    /\ LET cerr == OptionalError(env.vertexColorSet, loc.is_encrypted)
           terr == OptionalError(env.perVertexTextureCoord, loc.is_encrypted)
       IN  IF cerr # "none"
           THEN Raise(cerr, <<"b64:VertexColorSet">>) /\ UNCHANGED loc
           ELSE IF terr # "none"
           THEN Raise(terr, <<"b64:PerVertexTextureCoord">>) /\ UNCHANGED loc
           ELSE /\ Goto("images", <<>>)
                /\ loc' = [loc EXCEPT
                      !.vertex_colors_data =
                          OptionalData(env.vertexColorSet, loc.is_encrypted),
                      !.texture_coords_data =
                          OptionalData(env.perVertexTextureCoord, loc.is_encrypted)]
    /\ UNCHANGED <<env, ctx, ce, result, ret, notLoadVars>>

\* root.findall(path): the positions, in document order, of the image
\* elements the path matches
FindAll(path) == SelectSeq([i \in DOMAIN env.images |-> i],
                           LAMBDA i : path \in env.images[i].paths)

\* lines 349-359, the inner loop: the elements found by one path that were
\* not seen before are appended, each extracted as encrypted or not
RECURSIVE CollectPath(_, _, _)
CollectPath(found, encrypted, acc) ==
    IF found = <<>> THEN acc
    ELSE LET i == Head(found)
         IN  IF i \in acc.seen THEN CollectPath(Tail(found), encrypted, acc)
             ELSE CollectPath(Tail(found), encrypted,
                    [seen |-> acc.seen \cup {i},
                     err |-> IF acc.err # "none" THEN acc.err
                             ELSE extract_binary_data_error(env.images[i].elem, encrypted),
                     list |-> Append(acc.list,
                                     extract_binary_data(env.images[i].elem, encrypted))])

\* lines 349-359, the outer loop over texture_paths
RECURSIVE CollectImages(_, _, _)
CollectImages(paths, is_encrypted, acc) ==
    IF paths = <<>> THEN acc
    ELSE CollectImages(Tail(paths), is_encrypted,
            CollectPath(FindAll(Head(paths)[1]),
                        is_encrypted /\ Head(paths)[2], acc))

\* lines 341-359: the texture images
TextureImages ==
    /\ lPc = "images"
    /\ LET r == CollectImages(texture_paths, loc.is_encrypted,
                              [seen |-> {}, err |-> "none", list |-> <<>>])
       IN  IF r.err # "none"
           THEN Raise(r.err, <<"b64:TextureImage">>) /\ UNCHANGED loc
           ELSE /\ Goto("splines", <<>>)
                /\ loc' = [loc EXCEPT !.texture_images = r.list]
    /\ UNCHANGED <<env, ctx, ce, result, ret, notLoadVars>>

\* A spline object of the envelope: the value of each Property, None for a
\* property that is missing, and the coordinates of the control points,
\* None when the object has neither ControlPointsPacked nor ControlPoints.
SplineObject(name, radius, closed, color, misc, points) ==
    [name |-> name, radius |-> radius, closed |-> closed, color |-> color,
     misc |-> misc, points |-> points]

\* str.lower on a string of ASCII letters
Lower(s) == [i \in DOMAIN s |-> IF s[i] \in 65..90 THEN s[i] + 32 ELSE s[i]]

TrueText == <<116, 114, 117, 101>>

\* lines 212-239: what makes parse_spline raise; every failure is an
\* HPSParseError
parse_spline_error(element) ==
    IF \/ \E p \in {element.name, element.radius, element.closed,
                      element.color, element.misc} : p = None
       \/ ParseInt(element.radius) = BadInt
       \/ ParseInt(element.color) = BadInt
       \/ ParseInt(element.misc) = BadInt
       \/ element.points = None
       \/ Len(element.points) \div 3 = 0
    THEN "HPSParseError" ELSE "none"

\* lines 162-167: the coordinates as rows of three
control_points(floats) ==
    [i \in 1..(Len(floats) \div 3) |-> SubSeq(floats, 3 * i - 2, 3 * i)]

\* lines 212-248: the Spline built from an object that parses
parse_spline(element) ==
    [name |-> element.name,
     control_points |-> control_points(element.points),
     radius |-> ParseInt(element.radius),
     is_cyclic |-> (Lower(element.closed) = TrueText),
     color |-> ParseInt(element.color),
     misc |-> ParseInt(element.misc)]

\* lines 257-267: the splines in document order; the first object that
\* does not parse ends the loop with its error
RECURSIVE parse_splines(_, _)
parse_splines(objects, acc) ==
    IF objects = <<>> THEN [err |-> "none", list |-> acc]
    ELSE IF parse_spline_error(Head(objects)) # "none"
    THEN [err |-> parse_spline_error(Head(objects)), list |-> acc]
    ELSE parse_splines(Tail(objects), Append(acc, parse_spline(Head(objects))))

\* line 361: splines = parse_splines(root)
ParseSplines ==
    /\ lPc = "splines"
    /\ LET r == parse_splines(env.splines, <<>>)
       IN  IF r.err # "none"
           THEN Raise(r.err, <<>>) /\ UNCHANGED loc
           ELSE /\ Goto("context", <<>>)
                /\ loc' = [loc EXCEPT !.splines = r.list]
    /\ UNCHANGED <<env, ctx, ce, result, ret, notLoadVars>>

\* int(check_value) if check_value else None; the number is kept as the
\* tuple of its four bytes
CheckValueOf(attr) == IF Truthy(attr) THEN attr ELSE None

\* int(default_face_color) if default_face_color else None
DefaultColorOf_ZeroIsNone(attr) ==
    IF Truthy(attr) /\ ParseInt(attr) # 0 THEN ParseInt(attr) ELSE NoInt

DefaultColorOf(attr) == IF Truthy(attr) THEN ParseInt(attr) ELSE NoInt

\* lines 363-386: the properties and the ParseContext
BuildContext ==
    /\ lPc = "context"
    /\ IF DefaultColorOf(loc.default_face_color) = BadInt
       THEN Raise("ValueError", <<>>) /\ UNCHANGED ctx
       ELSE /\ ctx' = [vertex_data |-> loc.vertex_data,
                       face_data |-> loc.face_data,
                       vertex_count |-> loc.num_vertices,
                       face_count |-> loc.num_faces,
                       default_face_color |-> DefaultColorOf(loc.default_face_color),
                       vertex_colors_data |-> loc.vertex_colors_data,
                       texture_coords_data |-> loc.texture_coords_data,
                       texture_images |-> loc.texture_images,
                       splines |-> loc.splines,
                       check_value |-> CheckValueOf(loc.check_value),
                       properties |-> env.properties]
            /\ Goto("parse", <<>>)
    /\ UNCHANGED <<env, loc, ce, result, ret, notLoadVars>>

\* The vertex-stream outcomes: nv vertices, or -1 for a stream cut short.
VertexOutcomes == -1..MaxVerts

\* lines 388-389 for CA, CB and CC: get_parser(schema).parse(context)
Parse ==
    /\ lPc = "parse"
    /\ loc.schema # "CE"
    /\ \E nv \in VertexOutcomes :
          LET r == DecodeMesh([ctx EXCEPT !.vertex_data = @.data,
                                          !.texture_images =
                                             [i \in DOMAIN @ |-> @[i].data]],
                             nv, env.face_colors)
          IN  IF loc.schema = "CB"
              THEN Raise("NotImplementedError", <<>>) /\ UNCHANGED result
              ELSE IF r.err # "none"
              THEN Raise(r.err, <<>>) /\ UNCHANGED result
              ELSE Goto("counts", <<>>) /\ result' = r.mesh
    /\ UNCHANGED <<env, loc, ctx, ce, ret, notLoadVars>>

----------------------------------------------------------------------------
(* schemas/ce.py: CESchemaParser.parse, entered from load_hps line 389 *)

\* line 57: key = self._derive_key(context.properties)
CEDeriveKey ==
    /\ lPc = "parse"
    /\ loc.schema = "CE"
    /\ ce' = [ce EXCEPT !.key = _derive_key(ctx.properties, env.encryption_key)]
    /\ Goto("ce_vertex", <<"derive_key">>)
    /\ UNCHANGED <<env, loc, ctx, result, ret, notLoadVars>>

\* line 59: decrypted_vertex_data = self._decrypt_data(context.vertex_data, key)
CEDecryptVertex ==
    /\ lPc = "ce_vertex"
    /\ ce' = [ce EXCEPT !.vertex = _decrypt_data(ctx.vertex_data, ce.key)]
    /\ Goto("ce_check", <<"decrypt:vertex">>)
    /\ UNCHANGED <<env, loc, ctx, result, ret, notLoadVars>>

CEIntegrity_NeverRaises ==
    /\ lPc = "ce_check"
    /\ Goto("ce_texcoords", <<"integrity">>)
    /\ UNCHANGED <<env, loc, ctx, ce, result, ret, notLoadVars>>

\* lines 60-67: the integrity check
CEIntegrity ==
    /\ lPc = "ce_check"
    /\ IF ctx.check_value # None /\ IntegrityValue(ce.vertex) # ctx.check_value
       THEN Raise("HPSEncryptionError", <<"integrity">>)
       ELSE Goto("ce_texcoords", <<"integrity">>)
    /\ UNCHANGED <<env, loc, ctx, ce, result, ret, notLoadVars>>

\* The decryption recorded for an optional blob: none when it is absent
DecryptEvent(data, name) == IF data = NoBlob THEN <<>> ELSE <<name>>

\* _decrypt_data on an optional blob
DecryptOptional(data, key) ==
    IF data = NoBlob THEN None ELSE _decrypt_data(data, key)

\* lines 69-71
CEDecryptTexCoords ==
    /\ lPc = "ce_texcoords"
    /\ ce' = [ce EXCEPT !.texture_coords = DecryptOptional(ctx.texture_coords_data, ce.key)]
    /\ Goto("ce_colors", DecryptEvent(ctx.texture_coords_data, "decrypt:texture_coords"))
    /\ UNCHANGED <<env, loc, ctx, result, ret, notLoadVars>>

\* lines 73-75
CEDecryptVertexColors ==
    /\ lPc = "ce_colors"
    /\ ce' = [ce EXCEPT !.vertex_colors = DecryptOptional(ctx.vertex_colors_data, ce.key)]
    /\ Goto("ce_images", DecryptEvent(ctx.vertex_colors_data, "decrypt:vertex_colors"))
    /\ UNCHANGED <<env, loc, ctx, result, ret, notLoadVars>>

\* lines 77-79
CEDecryptImages ==
    /\ lPc = "ce_images"
    /\ ce' = [ce EXCEPT !.texture_images =
                 [i \in DOMAIN ctx.texture_images |->
                     _decrypt_data(ctx.texture_images[i], ce.key)]]
    /\ Goto("ce_super", [i \in DOMAIN ctx.texture_images |-> "decrypt:texture_image"])
    /\ UNCHANGED <<env, loc, ctx, result, ret, notLoadVars>>

\* ParseContext's value for a splines argument that is not given
DefaultSplines == <<>>

\* lines 81-92: the decrypted context; splines and check_value are not
\* passed on and take their defaults
decrypted_context ==
    [ctx EXCEPT !.vertex_data = ce.vertex,
                !.texture_coords_data = ce.texture_coords,
                !.vertex_colors_data = ce.vertex_colors,
                !.texture_images = ce.texture_images,
                !.splines = DefaultSplines,
                !.check_value = None]

\* lines 81-94: the decrypted context and CCSchemaParser.parse on it
CESuperParse ==
    /\ lPc = "ce_super"
    /\ \E nv \in VertexOutcomes :
          LET r == DecodeMesh(decrypted_context, nv, env.face_colors)
          IN  IF r.err # "none"
              THEN Raise(r.err, <<"cc:parse">>) /\ UNCHANGED result
              ELSE Goto("counts", <<"cc:parse">>) /\ result' = r.mesh
    /\ UNCHANGED <<env, loc, ctx, ce, ret, notLoadVars>>

----------------------------------------------------------------------------
(* loader.py: load_hps, after the parser returned *)

CheckCounts_FacesOnly ==
    /\ lPc = "counts"
    /\ IF Len(result.faces) # loc.num_faces
       THEN Raise("HPSParseError", <<"mismatch:face">>) /\ UNCHANGED ret
       ELSE Goto("returned", <<>>) /\ ret' = result
    /\ UNCHANGED <<env, loc, ctx, ce, result, notLoadVars>>

\* lines 391-415: the two count checks, then the return
CheckCounts ==
    /\ lPc = "counts"
    /\ IF result.num_vertices # loc.num_vertices
       THEN Raise("HPSParseError", <<"mismatch:vertex">>) /\ UNCHANGED ret
       ELSE IF Len(result.faces) # loc.num_faces
       THEN Raise("HPSParseError", <<"mismatch:face">>) /\ UNCHANGED ret
       ELSE Goto("returned", <<>>) /\ ret' = result
    /\ UNCHANGED <<env, loc, ctx, ce, result, notLoadVars>>

----------------------------------------------------------------------------
(* The envelopes *)

Envelope(schema, hasData, vertices, facets, vertex_count, facet_count, check_value, vertexColorSet, perVertexTextureCoord, images, properties, encryption_key) ==
    [schema |-> schema, hasData |-> hasData, vertices |-> vertices, facets |-> facets,
     vertex_count |-> vertex_count, facet_count |-> facet_count,
     check_value |-> check_value, vertexColorSet |-> vertexColorSet,
     perVertexTextureCoord |-> perVertexTextureCoord, images |-> images,
     properties |-> properties, encryption_key |-> encryption_key,
     facets_color |-> None, face_colors |-> None, splines |-> <<>>]

NoProperties == [n \in {} |-> <<>>]

TheKey == <<3, 1, 4, 1>>

\* The face streams: every opcode sequence up to MaxFaceCmds
FaceCommands ==
    {NewStrip(t) : t \in {<<1, 1, 1>>, <<3, 2, 1>>}}
        \cup {Extend(r) : r \in {1, 2}} \cup {Restart}

FaceStreams == SeqsUpTo(FaceCommands, MaxFaceCmds)

VertexBytes == <<0, 0, 128, 63, 0, 0, 0, 0, 0>>

PayloadTexts == {"none", "padding", "junk", "ok"}

\* The declared counts: the attribute absent, empty or a decimal number
VertexCountAttrs == {None, <<>>} \cup {DecimalStr(n) : n \in 0..MaxVerts}
FacetCountAttrs == {None} \cup {DecimalStr(n) : n \in 0..MaxFaces}

\* Envelopes of every shape: any Schema text, each required element and
\* attribute present or not, each payload well-formed or not, around one
\* face stream.
ShapeEnvelopes ==
    {Envelope(sc, hd, v, f, vc, fc, None, NoElement, NoElement, <<>>, NoProperties, TheKey) :
        sc \in {"absent", "notext", "CA", "CB", "CC", "CE", "ZZ"},
        hd \in BOOLEAN,
        v \in {NoElement} \cup {Element(t, VertexBytes, None, None) : t \in PayloadTexts},
        f \in {NoElement}
                \cup {Element(t, <<>>, None, None) : t \in {"none", "padding"}}
                \cup {Element("ok", <<NewStrip(<<1, 1, 1>>)>>, None, None)},
        vc \in VertexCountAttrs,
        fc \in FacetCountAttrs}

\* Well-formed envelopes of the unencrypted schemas around every face stream.
StreamEnvelopes ==
    {Envelope(sc, TRUE, Element("ok", VertexBytes, None, None),
              Element("ok", fs, None, None), vc, fc,
              None, NoElement, NoElement, <<>>, NoProperties, TheKey) :
        sc \in {"CA", "CB", "CC"},
        fs \in FaceStreams,
        vc \in VertexCountAttrs,
        fc \in FacetCountAttrs}

LoadEnvelopes == ShapeEnvelopes \cup StreamEnvelopes

LoadIdle ==
    /\ env = Envelope("absent", FALSE, NoElement, NoElement, None, None, None,
                      NoElement, NoElement, <<>>, NoProperties, <<>>)
    /\ lPc = "idle"
    /\ lErr = "none"
    /\ lTrace = <<>>
    /\ loc = Loc0
    /\ ctx = Ctx0
    /\ ce = Ce0
    /\ result = NoMesh
    /\ ret = NoMesh

LoadStart ==
    /\ lPc = "schema"
    /\ lErr = "none"
    /\ lTrace = <<>>
    /\ loc = Loc0
    /\ ctx = Ctx0
    /\ ce = Ce0
    /\ result = NoMesh
    /\ ret = NoMesh

LoadInit == env \in LoadEnvelopes /\ LoadStart


\* CE envelopes: a well-formed file whose blobs carry, or not, the Key and
\* size attributes, a check value and texture images on the four paths.
CipherBytes == <<9, 9, 0, 0, 250, 0, 3, 3, 77>>
ImageBytes == <<1, 2, 3, 4, 5, 6, 7, 8>>
KeyAttrs == {None, <<Digit1>>}

\* An image element and the paths of texture_paths that match it: an
\* element of the first path with or without Key, one that two paths match,
\* one of the unencrypted path.
ImageElements ==
    {[elem |-> Element("ok", ImageBytes, None, k), paths |-> {1}] : k \in KeyAttrs}
        \cup {[elem |-> Element("ok", ImageBytes, None, <<Digit1>>), paths |-> ps] :
                    ps \in {{3, 4}, {4}}}

CheckValues ==
    {None, <<>>,
     IntegrityValue(BlowfishDecrypt(TheKey, CipherBytes, NoInt)),
     adler32(BlowfishDecrypt(TheKey, CipherBytes, NoInt)),
     IntegrityValue(BlowfishDecrypt(scramble_key(TheKey), CipherBytes, 8))}

CEProperties ==
    {NoProperties,
     [n \in {HPS_ATTR_ENCRYPTION_KEY_ID, HPS_ATTR_PACKAGE_LOCK_LIST} |->
        IF n = HPS_ATTR_ENCRYPTION_KEY_ID THEN <<Digit1>> ELSE <<CharA>>]}

CEEnvelopes ==
    {Envelope("CE", TRUE, Element("ok", CipherBytes, sz, vk),
              Element("ok", <<NewStrip(<<1, 1, 1>>)>>, None, None),
              DecimalStr(3), DecimalStr(1), cv, vcs, tc, imgs, props, TheKey) :
        sz \in {None, DecimalStr(8)},
        vk \in KeyAttrs,
        cv \in CheckValues,
        vcs \in {NoElement} \cup {Element("ok", ImageBytes, None, k) : k \in KeyAttrs},
        tc \in {NoElement} \cup {Element("ok", CipherBytes, None, k) : k \in KeyAttrs},
        imgs \in SeqsUpTo(ImageElements, MaxImages),
        props \in CEProperties}

CEInit == env \in CEEnvelopes /\ LoadStart

\* The file the command line names, before load_hps is called
CliLoadInit ==
    /\ env \in LoadEnvelopes \cup CEEnvelopes
    /\ lPc = "idle"
    /\ lErr = "none"
    /\ lTrace = <<>>
    /\ loc = Loc0
    /\ ctx = Ctx0
    /\ ce = Ce0
    /\ result = NoMesh
    /\ ret = NoMesh

\* Envelopes with annotations: a well-formed file of a schema that decodes,
\* with spline objects, or with a Facets colour and a face stream that
\* carries a colour sub-stream or not.
FalseText == <<70, 97, 108, 115, 101>>

GoodSplines ==
    {SplineObject(<<CharA>>, <<Digit1>>, <<84, 114, 117, 101>>, <<Digit2>>, <<Digit1>>,
                  <<0, 0, 0>>),
     SplineObject(<<CharB>>, <<Digit2>>, FalseText, <<Digit1>>, <<Digit2>>,
                  <<0, 0, 0, 1, 0, 0>>)}

BadSplines ==
    {SplineObject(<<CharA>>, <<Digit1>>, FalseText, <<Digit2>>, <<CharA>>, <<0, 0, 0>>),
     SplineObject(None, <<Digit1>>, FalseText, <<Digit2>>, <<Digit1>>, <<0, 0, 0>>),
     SplineObject(<<CharB>>, <<Digit1>>, TrueText, <<Digit2>>, <<Digit1>>, None)}

SplineLists == SeqsUpTo(GoodSplines \cup BadSplines, MaxSplines)

ColorPool == {0, 1, 255, 16744512, 16777215}

ColorAttrs == {None, <<>>, <<CharA>>} \cup {DecimalStr(c) : c \in ColorPool}

ColorStreams == {None, <<1, 64, 128, 255>>}

\* The face streams of zero, one and two faces
FacesOf(k) ==
    IF k = 0 THEN <<>> ELSE <<NewStrip(<<1, 1, 1>>)>> \o [i \in 1..(k - 1) |-> Extend(2)]

AnnotatedBase(schema, k) ==
    Envelope(schema, TRUE,
             IF schema = "CE" THEN Element("ok", CipherBytes, None, None)
                              ELSE Element("ok", VertexBytes, None, None),
             Element("ok", FacesOf(k), None, None),
             DecimalStr(3), DecimalStr(k), None, NoElement, NoElement, <<>>,
             NoProperties, TheKey)

SplineEnvelopes ==
    {[AnnotatedBase(sc, 1) EXCEPT !.splines = sp] :
        sc \in {"CA", "CC", "CE"}, sp \in SplineLists}

ColorEnvelopes ==
    {[AnnotatedBase(sc, k) EXCEPT !.facets_color = c, !.face_colors = st] :
        sc \in {"CA", "CC", "CE"}, k \in 0..MaxFaces,
        c \in ColorAttrs, st \in ColorStreams}

\* Image elements told apart by their payload: one under each encryptable
\* path, one that the third and the fourth path both match, one that only
\* the fourth path matches.
PayloadOf(n) == <<n, 2, 3, 4, 5, 6, 7, 8>>

MarkedImages ==
    {[elem |-> Element("ok", PayloadOf(1), None, None), paths |-> {1}],
     [elem |-> Element("ok", PayloadOf(2), None, <<Digit1>>), paths |-> {2}],
     [elem |-> Element("ok", PayloadOf(3), None, None), paths |-> {3, 4}],
     [elem |-> Element("ok", PayloadOf(4), None, <<Digit1>>), paths |-> {4}]}

ImageEnvelopes ==
    {[AnnotatedBase(sc, 1) EXCEPT !.images = imgs] :
        sc \in {"CA", "CC", "CE"}, imgs \in SeqsUpTo(MarkedImages, MaxImages)}

AnnotInit == env \in SplineEnvelopes \cup ColorEnvelopes \cup ImageEnvelopes /\ LoadStart

LoadSteps ==
    \/ ReadSchema
    \/ FindElements
    \/ DecodePayloads
    \/ ReadAttributes
    \/ OptionalElements
    \/ TextureImages
    \/ ParseSplines
    \/ BuildContext

CESteps ==
    \/ CEDeriveKey
    \/ CEDecryptVertex
    \/ CEIntegrity
    \/ CEDecryptTexCoords
    \/ CEDecryptVertexColors
    \/ CEDecryptImages
    \/ CESuperParse

NextLoad == LoadSteps \/ Parse \/ CESteps \/ CheckCounts

NextCE == LoadSteps \/ CESteps \/ CheckCounts

----------------------------------------------------------------------------
(* texture.py: decompress_texture_coord *)

_OUTSIDE_RANGE_BIT == 32768
_COORD_MASK == 32767

\* A 32-bit word is the tuple of its four bytes as read, least significant
\* first; a coordinate is the numerator of a fraction over 32767.
_NO_UV_MARKER_HighBitsOnly == <<0, 0, 255, 255>>

_NO_UV_MARKER == <<255, 255, 255, 255>>

\* bits & _OUTSIDE_RANGE_BIT != 0, bits & _COORD_MASK
_decompress_component(bits) ==
    LET is_outside_range == bits >= _OUTSIDE_RANGE_BIT
        value == bits % (_COORD_MASK + 1)
    IN  IF is_outside_range THEN value * 512 - 256 * 32767 ELSE value

decompress_texture_coord_Swapped(compressed) ==
    LET u_bits == compressed[3] + 256 * compressed[4]
        v_bits == compressed[1] + 256 * compressed[2]
    IN  <<_decompress_component(u_bits), _decompress_component(v_bits)>>

decompress_texture_coord(compressed) ==
    LET u_bits == compressed[1] + 256 * compressed[2]
        v_bits == compressed[3] + 256 * compressed[4]
    IN  <<_decompress_component(u_bits), _decompress_component(v_bits)>>

\* The packed words: every combination of these byte values, which give
\* the components 0x0000, 0x7FFF, 0x8000, 0xFFFF and values around them.
CoordBytes == {0, 1, 63, 127, 128, 129, 254, 255}

CoordIdle ==
    /\ cWord = <<0, 0, 0, 0>>
    /\ cPc = "idle"
    /\ cUV = <<0, 0>>

CoordInit ==
    /\ cWord \in [1..4 -> CoordBytes]
    /\ cPc = "start"
    /\ cUV = <<0, 0>>

\* u, v = decompress_texture_coord(compressed)
DecompressCoord ==
    /\ cPc = "start"
    /\ cUV' = decompress_texture_coord(cWord)
    /\ cPc' = "done"
    /\ UNCHANGED <<cWord, notCoordVars>>

NextCoord == DecompressCoord

----------------------------------------------------------------------------
(* texture.py: parse_texture_coords *)

\* faces.ravel()
Ravel(faces) == Flatten(faces)

\* lines 103-105: vertex_corners; corner and vertex indices count from 0,
\* sequence positions from 1.  err is "IndexError" when a face names a
\* vertex that num_vertices does not cover.
RECURSIVE BuildCorners(_, _, _)
BuildCorners(face_corners, corner_idx, acc) ==
    IF corner_idx = Len(face_corners) \/ acc.err # "none" THEN acc
    ELSE LET vertex_idx == face_corners[corner_idx + 1]
         IN  IF vertex_idx >= Len(acc.vc)
             THEN [acc EXCEPT !.err = "IndexError"]
             ELSE BuildCorners(face_corners, corner_idx + 1,
                    [acc EXCEPT !.vc[vertex_idx + 1] = Append(@, corner_idx)])

\* line 107: np.zeros((num_faces * 3, 2))
UVZeros_PerFace(num_faces) == [i \in 1..num_faces |-> <<0, 0>>]

UVZeros(num_faces) == [i \in 1..(num_faces * 3) |-> <<0, 0>>]

\* sorted(corners, key=lambda c: c // 3): a stable sort by face
RECURSIVE InsertByFace(_, _)
InsertByFace(c, l) ==
    IF l = <<>> THEN <<c>>
    ELSE IF (c \div 3) < (Head(l) \div 3) THEN <<c>> \o l
    ELSE <<Head(l)>> \o InsertByFace(c, Tail(l))

SortByFace_Descending(corners) == Reverse(corners)

RECURSIVE SortByFace(_)
SortByFace(corners) ==
    IF corners = <<>> THEN <<>>
    ELSE InsertByFace(corners[Len(corners)], SortByFace(SubSeq(corners, 1, Len(corners) - 1)))

\* BinaryReader.read_uint32 at pos, when 4 bytes remain
Word(data, pos) == SubSeq(data, pos + 1, pos + 4)

\* lines 116-120: the single-UV record
SingleUV(data, pos, corners, uv) ==
    IF pos + 4 > Len(data) THEN [pos |-> pos, uvs |-> uv, err |-> "EOFError"]
    ELSE LET compressed == Word(data, pos)
         IN  [pos |-> pos + 4,
              uvs |-> IF compressed # _NO_UV_MARKER
                      THEN [i \in DOMAIN uv |->
                              IF \E k \in DOMAIN corners : corners[k] + 1 = i
                              THEN decompress_texture_coord(compressed) ELSE uv[i]]
                      ELSE uv,
              err |-> "none"]

\* lines 131-135: one UV per corner, in the order of corners_sorted
RECURSIVE MultiUV(_, _, _, _)
MultiUV(data, pos, corners_sorted, uv) ==
    IF corners_sorted = <<>> THEN [pos |-> pos, uvs |-> uv, err |-> "none"]
    ELSE IF pos + 4 > Len(data) THEN [pos |-> pos, uvs |-> uv, err |-> "EOFError"]
    ELSE LET compressed == Word(data, pos)
             corner_idx == Head(corners_sorted)
         IN  MultiUV(data, pos + 4, Tail(corners_sorted),
                     IF compressed # _NO_UV_MARKER
                     THEN [uv EXCEPT ![corner_idx + 1] = decompress_texture_coord(compressed)]
                     ELSE uv)

\* lines 99-107: the reader, the corner lists and the zeroed UV array
UVPrepare ==
    /\ uvPc = "start"
    /\ LET r == BuildCorners(Ravel(uvFaces), 0,
                             [vc |-> [i \in 1..uvVerts |-> <<>>], err |-> "none"])
       IN  /\ uvCorners' = r.vc
           /\ uvErr' = r.err
           /\ uvPc' = IF r.err # "none" THEN "raised" ELSE "loop"
           /\ uvs' = IF r.err # "none" THEN uvs ELSE UVZeros(Len(uvFaces))
    /\ uvPos' = 0
    /\ uvVertex' = 0
    /\ UNCHANGED <<uvData, uvVerts, uvFaces, uvFlags, notUVVars>>

\* lines 123-125: a flag that is neither 1 nor 0xFF must be the number of
\* corners of the vertex
FlagMismatch_TreatsFFAsCount(flag, corners) == flag # 1 /\ flag # Len(corners)

FlagMismatch(flag, corners) == flag # 1 /\ flag # 255 /\ flag # Len(corners)

\* lines 109-138: one iteration of the loop over the vertices
UVRecord ==
    /\ uvPc = "loop"
    /\ uvVertex < uvVerts
    /\ IF uvPos + 1 > Len(uvData)
       THEN /\ uvPc' = "raised"
            /\ uvErr' = "ValueError:end"
            /\ UNCHANGED <<uvPos, uvVertex, uvs, uvFlags>>
       ELSE LET flag == uvData[uvPos + 1]
                corners == uvCorners[uvVertex + 1]
                r == IF flag = 1 THEN SingleUV(uvData, uvPos + 1, corners, uvs)
                     ELSE MultiUV(uvData, uvPos + 1, SortByFace(corners), uvs)
            IN  /\ uvFlags' = Append(uvFlags, flag)
                /\ IF FlagMismatch(flag, corners)
                   THEN /\ uvPc' = "raised"
                        /\ uvErr' = "ValueError:mismatch"
                        /\ uvPos' = uvPos + 1
                        /\ UNCHANGED <<uvVertex, uvs>>
                   ELSE IF r.err # "none"
                   THEN /\ uvPc' = "raised"
                        /\ uvErr' = "ValueError:end"
                        /\ uvPos' = r.pos
                        /\ uvs' = r.uvs
                        /\ UNCHANGED uvVertex
                   ELSE /\ uvPc' = "loop"
                        /\ uvErr' = uvErr
                        /\ uvPos' = r.pos
                        /\ uvs' = r.uvs
                        /\ uvVertex' = uvVertex + 1
    /\ UNCHANGED <<uvData, uvVerts, uvFaces, uvCorners, notUVVars>>

\* line 140: return uvs
UVReturn ==
    /\ uvPc = "loop"
    /\ uvVertex = uvVerts
    /\ uvPc' = "returned"
    /\ UNCHANGED <<uvData, uvVerts, uvFaces, uvErr, uvPos, uvVertex, uvCorners, uvs,
                   uvFlags, notUVVars>>

\* The inputs: a few meshes, and every stream of up to MaxUVRecords records
W1 == <<255, 63, 0, 64>>
W2 == <<0, 128, 255, 255>>

\* The word 0xFFFFFFFF as it stands in the data
WFF == <<255, 255, 255, 255>>

RecordPool ==
    {<<1>> \o W1, <<1>> \o WFF, <<2>> \o W1 \o W2,
     <<255>> \o W2 \o WFF, <<255>> \o W1, <<5>> \o W1, <<1>>, <<0>>}

UVStreams == {Flatten(rs) : rs \in SeqsUpTo(RecordPool, MaxUVRecords)}

UVMeshes ==
    {[nv |-> 0, faces |-> <<>>],
     [nv |-> 3, faces |-> <<<<0, 1, 2>>>>],
     [nv |-> 3, faces |-> <<<<0, 1, 2>>, <<0, 2, 1>>>>],
     [nv |-> 2, faces |-> <<<<0, 1, 1>>>>],
     [nv |-> 3, faces |-> <<<<0, 1, 1>>>>],
     [nv |-> 2, faces |-> <<<<0, 1, 2>>>>]}

UVStart ==
    /\ uvErr = "none"
    /\ uvPos = 0
    /\ uvVertex = 0
    /\ uvCorners = <<>>
    /\ uvs = <<>>
    /\ uvFlags = <<>>

UVIdle ==
    /\ uvData = <<>>
    /\ uvVerts = 0
    /\ uvFaces = <<>>
    /\ uvPc = "idle"
    /\ UVStart

UVInit ==
    /\ uvData \in UVStreams
    /\ \E m \in UVMeshes : uvVerts = m.nv /\ uvFaces = m.faces
    /\ uvPc = "start"
    /\ UVStart

NextUV == UVPrepare \/ UVRecord \/ UVReturn

----------------------------------------------------------------------------
(* binary.py: BinaryReader *)

\* Bit number bit (0 = first consumed) of the byte after byte bytes: bits
\* are consumed most significant first.
BitAt_LSBFirst(data, byte, bit) == (data[byte + 1] \div (2 ^ bit)) % 2

BitAt(data, byte, bit) == (data[byte + 1] \div (2 ^ (7 - bit))) % 2

\* The next n bits from the given place.  An n-bit unsigned integer is the
\* tuple of its bits, most significant first.
RECURSIVE BitsFrom(_, _, _, _)
BitsFrom(data, byte, bit, n) ==
    IF n = 0 THEN <<>>
    ELSE <<BitAt(data, byte, bit)>>
            \o (IF bit = 7 THEN BitsFrom(data, byte + 1, 0, n - 1)
                ELSE BitsFrom(data, byte, bit + 1, n - 1))

BitsLeft(data, byte, bit) == 8 * (Len(data) - byte) - bit

\* read_bits takes 1 to 32 bits
ValidBitCount_FromZero(n) == 0 <= n /\ n <= 32

ValidBitCount(n) == 1 <= n /\ n <= 32

\* The byte boundary a non-bit read starts at: a partially consumed byte is
\* discarded.
AlignedByte_Stays(byte, bit) == byte

AlignedByte(byte, bit) == IF bit > 0 THEN byte + 1 ELSE byte

\* BinaryReader.position: the count of fully consumed bytes
position_CountsPartial == IF rBit > 0 THEN rByte + 1 ELSE rByte

position == rByte

\* The number of bytes a non-bit read takes; n is the argument of read_bytes.
ReadWidth(op, n) ==
    IF op = "read_uint8" THEN 1
    ELSE IF op \in {"read_uint16", "read_int16"} THEN 2
    ELSE IF op \in {"read_uint32", "read_int32", "read_float32"} THEN 4
    ELSE n

\* The value of a non-bit read on the bytes it took: little-endian numbers
\* for 8 and 16 bits, two's complement for read_int16; a 32-bit value is
\* the tuple of its four bytes, read_bytes gives the bytes.
ReadValue(op, bytes) ==
    IF op = "read_uint8" THEN <<bytes[1]>>
    ELSE IF op = "read_uint16" THEN <<bytes[1] + 256 * bytes[2]>>
    ELSE IF op = "read_int16"
    THEN <<IF bytes[2] >= 128 THEN bytes[1] + 256 * bytes[2] - 65536
           ELSE bytes[1] + 256 * bytes[2]>>
    ELSE bytes

ReaderOps ==
    {"read_uint8", "read_uint16", "read_uint32", "read_int16", "read_int32",
     "read_float32", "read_bytes"}

\* The arguments tried: bit counts in and out of 1..32, byte counts
BitCounts == {0, 1, 3, 8, 13, 32, 33}
ByteCounts == {0, 1, 2, 3}

ReaderBytes == {166, 49}

\* A call as seen from outside: its name, argument and result, where the
\* reader stood when it was made and the position reported around it.
Call(op, n, out) ==
    [op |-> op, n |-> n, out |-> out, byte |-> rByte, bit |-> rBit,
     before |-> position, after |-> position']

ReaderRaise(op, n, kind) ==
    /\ rPc' = "raised"
    /\ rErr' = kind
    /\ UNCHANGED <<rByte, rBit>>
    /\ rLast' = Call(op, n, None)

\* read_bits(n)
ReadBits ==
    /\ rPc = "ready"
    /\ \E n \in BitCounts :
          IF ~ValidBitCount(n)
          THEN ReaderRaise("read_bits", n, "ValueError") /\ UNCHANGED rStream
          ELSE IF n > BitsLeft(rData, rByte, rBit)
          THEN ReaderRaise("read_bits", n, "EOFError") /\ UNCHANGED rStream
          ELSE /\ rByte' = (8 * rByte + rBit + n) \div 8
               /\ rBit' = (8 * rByte + rBit + n) % 8
               /\ rStream' = IF rOnlyBits THEN rStream \o BitsFrom(rData, rByte, rBit, n)
                              ELSE rStream
               /\ rLast' = Call("read_bits", n, BitsFrom(rData, rByte, rBit, n))
               /\ UNCHANGED <<rPc, rErr>>
    /\ UNCHANGED <<rData, rOnlyBits, notReaderVars>>

\* align_to_byte()
AlignToByte ==
    /\ rPc = "ready"
    /\ rByte' = AlignedByte(rByte, rBit)
    /\ rBit' = 0
    /\ rLast' = Call("align_to_byte", 0, None)
    /\ rOnlyBits' = FALSE
    /\ rStream' = <<>>
    /\ UNCHANGED <<rData, rPc, rErr, notReaderVars>>

\* read_uint8/16/32, read_int16/32, read_float32, read_bytes(n)
ReadAligned ==
    /\ rPc = "ready"
    /\ \E op \in ReaderOps : \E n \in (IF op = "read_bytes" THEN ByteCounts ELSE {0}) :
          LET start == AlignedByte(rByte, rBit)
              width == ReadWidth(op, n)
          IN  IF start + width > Len(rData)
              THEN ReaderRaise(op, n, "EOFError")
              ELSE /\ rByte' = start + width
                   /\ rBit' = 0
                   /\ rLast' = Call(op, n, ReadValue(op, SubSeq(rData, start + 1, start + width)))
                   /\ UNCHANGED <<rPc, rErr>>
    /\ rOnlyBits' = FALSE
    /\ rStream' = <<>>
    /\ UNCHANGED <<rData, notReaderVars>>

ReaderStart ==
    /\ rByte = 0
    /\ rBit = 0
    /\ rErr = "none"
    /\ rLast = [op |-> "new", n |-> 0, out |-> None, byte |-> 0, bit |-> 0,
                before |-> 0, after |-> 0]
    /\ rStream = <<>>
    /\ rOnlyBits = TRUE

ReaderIdle == rData = <<>> /\ rPc = "idle" /\ ReaderStart

ReaderInit == rData \in SeqsUpTo(ReaderBytes, MaxReaderBytes) /\ rPc = "ready" /\ ReaderStart

NextReader == ReadBits \/ AlignToByte \/ ReadAligned

----------------------------------------------------------------------------
(* The CC face stream, one opcode at a time *)

StripCounts == {3, 5}

StripIdle == sCmds = <<>> /\ sCount = 0 /\ sPos = 0 /\ sSt = FaceState0

StripInit ==
    /\ sCmds \in SeqsUpTo(FaceCommands, MaxStripCmds)
    /\ sCount \in StripCounts
    /\ sPos = 0
    /\ sSt = FaceState0

\* The decoder interprets the next opcode; an error ends the decode.
StripStep ==
    /\ sPos < Len(sCmds)
    /\ sSt.err = "none"
    /\ sSt' = FaceStep(sSt, sCmds[sPos + 1], sCount)
    /\ sPos' = sPos + 1
    /\ UNCHANGED <<sCmds, sCount, notStripVars>>

NextStrip == StripStep

----------------------------------------------------------------------------
(* texture.py: face_colors_to_vertex_colors *)

\* One corner of the inner loop: the face's colour is added to the vertex's
\* sums and the vertex's count goes up by one.  acc is <<sums, counts>>.
AddCorner(acc, vertex_idx, face_color) ==
    <<[acc[1] EXCEPT ![vertex_idx + 1] =
            <<@[1] + face_color[1], @[2] + face_color[2], @[3] + face_color[3]>>],
      [acc[2] EXCEPT ![vertex_idx + 1] = @ + 1]>>

AddFace(acc, face, face_color) ==
    AddCorner(AddCorner(AddCorner(acc, face[1], face_color), face[2], face_color),
              face[3], face_color)

MeanChannel_Rounded(sum, count) == (2 * sum + count) \div (2 * count)

\* A channel sum divided by the vertex's count and cast to uint8: the
\* quotient's fraction is dropped.
MeanChannel(sum, count) == (sum \div count) % 256

ColorFacePool == {<<0, 1, 2>>, <<1, 3, 2>>, <<2, 2, 0>>}

FaceColorPool == {<<255, 128, 64>>, <<0, 0, 0>>, <<100, 1, 2>>}

ColorVertexCounts == {4, 5}

ColorStart ==
    /\ fcFace = 0
    /\ fcSums = <<>>
    /\ fcCounts = <<>>
    /\ fcOut = <<>>

ColorIdle == fcFaces = <<>> /\ fcColors = <<>> /\ fcVerts = 0 /\ fcPc = "idle" /\ ColorStart

ColorInit ==
    /\ fcFaces \in SeqsUpTo(ColorFacePool, MaxColorFaces)
    /\ fcColors \in SeqsUpTo(FaceColorPool, MaxColorFaces)
    /\ Len(fcColors) = Len(fcFaces)
    /\ fcVerts \in ColorVertexCounts
    /\ fcPc = "call"
    /\ ColorStart

\* np.zeros for the sums and the counts
ColorZeros ==
    /\ fcPc = "call"
    /\ fcSums' = [v \in 1..fcVerts |-> <<0, 0, 0>>]
    /\ fcCounts' = [v \in 1..fcVerts |-> 0]
    /\ fcPc' = "loop"
    /\ UNCHANGED <<fcFaces, fcColors, fcVerts, fcFace, fcOut, notColorVars>>

\* One pass of the loop over the faces
ColorAccumulate ==
    /\ fcPc = "loop"
    /\ fcFace < Len(fcFaces)
    /\ LET acc == AddFace(<<fcSums, fcCounts>>, fcFaces[fcFace + 1], fcColors[fcFace + 1])
       IN  fcSums' = acc[1] /\ fcCounts' = acc[2]
    /\ fcFace' = fcFace + 1
    /\ UNCHANGED <<fcFaces, fcColors, fcVerts, fcPc, fcOut, notColorVars>>

\* The masked division and the cast of the result
ColorDivide ==
    /\ fcPc = "loop"
    /\ fcFace = Len(fcFaces)
    /\ fcOut' = [v \in 1..fcVerts |->
                    IF fcCounts[v] > 0
                    THEN <<MeanChannel(fcSums[v][1], fcCounts[v]),
                           MeanChannel(fcSums[v][2], fcCounts[v]),
                           MeanChannel(fcSums[v][3], fcCounts[v])>>
                    ELSE fcSums[v]]
    /\ fcPc' = "done"
    /\ UNCHANGED <<fcFaces, fcColors, fcVerts, fcFace, fcSums, fcCounts, notColorVars>>

NextColor == ColorZeros \/ ColorAccumulate \/ ColorDivide

----------------------------------------------------------------------------
(* texture.py: deduplicate_vertices_for_uv *)

\* The power of two a float32 of magnitude x is a multiple of: a float32
\* holds 24 significant bits.
RECURSIVE Ulp(_, _)
Ulp(x, p) == IF x < 16777216 * p THEN p ELSE Ulp(x, 2 * p)

\* np.float32 of a number (numbers are whole multiples of one unit): the
\* nearest float32, ties to the even mantissa.
Float32(x) ==
    LET m == IF x < 0 THEN -x ELSE x
        p == Ulp(m, 1)
        q == m \div p
        r == m % p
        n == IF 2 * r > p \/ (2 * r = p /\ q % 2 = 1) THEN q + 1 ELSE q
    IN  IF x < 0 THEN -(n * p) ELSE n * p

Float32Row(row) == [i \in DOMAIN row |-> Float32(row[i])]

Float32Array(rows) == [i \in DOMAIN rows |-> Float32Row(rows[i])]

CornerKey_VertexOnly(vertex_idx, uv) == <<vertex_idx>>

\* The dictionary key of one corner
CornerKey(vertex_idx, uv) == <<vertex_idx, uv>>

DedupState0 == [vertex_uv_map |-> <<>>, new_vertices |-> <<>>, new_uvs |-> <<>>, new_faces |-> <<>>]

\* One corner: a key not seen before gets the next index and appends its
\* vertex and its UV; new_face (the face under construction) gets the index
\* of the key.
DedupCorner(st, new_face, vertices, vertex_idx, uv) ==
    LET key == CornerKey(vertex_idx, uv)
        seen == key \in DOMAIN st.vertex_uv_map
        map == IF seen THEN st.vertex_uv_map
               ELSE [k \in DOMAIN st.vertex_uv_map \cup {key} |->
                        IF k = key THEN Len(st.new_vertices) ELSE st.vertex_uv_map[k]]
    IN  <<[st EXCEPT !.vertex_uv_map = map,
                     !.new_vertices = IF seen THEN @ ELSE Append(@, vertices[vertex_idx + 1]),
                     !.new_uvs = IF seen THEN @ ELSE Append(@, uv)],
          Append(new_face, map[key])>>

\* The three corners of one face, then new_faces.append(new_face)
DedupFace(st, vertices, face, face_uv) ==
    LET c1 == DedupCorner(st, <<>>, vertices, face[1], face_uv[1])
        c2 == DedupCorner(c1[1], c1[2], vertices, face[2], face_uv[2])
        c3 == DedupCorner(c2[1], c2[2], vertices, face[3], face_uv[3])
    IN  [c3[1] EXCEPT !.new_faces = Append(@, c3[2])]

DedupVertexArrays == {<<<<0, 0, 0>>, <<1, 0, 0>>, <<0, 1, 0>>>>, <<<<0, 0, 0>>, <<0, 0, 0>>, <<16777216, -3, 0>>>>}

DedupFacePool == {<<0, 1, 2>>, <<0, 2, 1>>, <<0, 1, 0>>}

DedupUVPool == {<<<<0, 0>>, <<2, 0>>, <<0, 2>>>>, <<<<1, 1>>, <<0, 2>>, <<2, 0>>>>, <<<<0, 0>>, <<0, 0>>, <<0, 0>>>>}

DedupStart == duFace = 0 /\ duSt = DedupState0 /\ duOut = <<>>

DedupIdle == duVerts = <<>> /\ duFaces = <<>> /\ duUV = <<>> /\ duPc = "idle" /\ DedupStart

DedupInit ==
    /\ duVerts \in DedupVertexArrays
    /\ duFaces \in SeqsUpTo(DedupFacePool, MaxDedupFaces)
    /\ duUV \in SeqsUpTo(DedupUVPool, MaxDedupFaces)
    /\ Len(duUV) = Len(duFaces)
    /\ duPc = "loop"
    /\ DedupStart

\* One pass of the loop over the faces
DedupLoop ==
    /\ duPc = "loop"
    /\ duFace < Len(duFaces)
    /\ duSt' = DedupFace(duSt, duVerts, duFaces[duFace + 1], duUV[duFace + 1])
    /\ duFace' = duFace + 1
    /\ UNCHANGED <<duVerts, duFaces, duUV, duPc, duOut, notDedupVars>>

\* The three lists are returned as float32, float32 and int32 arrays.
DedupReturn ==
    /\ duPc = "loop"
    /\ duFace = Len(duFaces)
    /\ duOut' = <<Float32Array(duSt.new_vertices), Float32Array(duSt.new_uvs), duSt.new_faces>>
    /\ duPc' = "done"
    /\ UNCHANGED <<duVerts, duFaces, duUV, duFace, duSt, notDedupVars>>

NextDedup == DedupLoop \/ DedupReturn

----------------------------------------------------------------------------
(* __main__.py: load_encryption_key *)

COMMA == 44
SPACE == 32

\* str.strip() (of the characters used here, the space is the whitespace)
RECURSIVE LStrip(_)
LStrip(s) == IF s # <<>> /\ Head(s) = SPACE THEN LStrip(Tail(s)) ELSE s

Strip(s) == Reverse(LStrip(Reverse(LStrip(s))))

IsHexDigit(c) == c \in 48..57 \/ c \in 97..102 \/ c \in 65..70

HexValue(c) == IF c \in 48..57 THEN c - 48 ELSE IF c \in 97..102 THEN c - 87 ELSE c - 55

\* bytes.fromhex(s): whitespace between the bytes is skipped, each byte is
\* two adjacent hex digits; anything else is a ValueError (<<BadInt>>).
RECURSIVE FromHex(_)
FromHex(s) ==
    LET t == LStrip(s)
    IN  IF t = <<>> THEN <<>>
        ELSE IF Len(t) < 2 \/ ~IsHexDigit(t[1]) \/ ~IsHexDigit(t[2]) THEN <<BadInt>>
        ELSE LET rest == FromHex(SubSeq(t, 3, Len(t)))
             IN  IF rest = <<BadInt>> THEN rest
                 ELSE <<16 * HexValue(t[1]) + HexValue(t[2])>> \o rest

\* bytes(int(b.strip()) for b in s.split(",")): every piece a decimal
\* number, every number a byte; anything else is a ValueError (<<BadInt>>).
CommaBytes(s) ==
    LET pieces == Split(s, COMMA)
        values == [i \in DOMAIN pieces |-> ParseInt(Strip(pieces[i]))]
    IN  IF \E i \in DOMAIN values : values[i] = BadInt \/ values[i] > 255
        THEN <<BadInt>>
        ELSE values

HasPrefix0x(s) == Len(s) >= 2 /\ s[1] = 48 /\ s[2] \in {120, 88}

\* lines 30-45, for a key string: the returned bytes, or the exception
load_encryption_key(key_arg) ==
    LET key == Strip(key_arg)
        body == IF HasPrefix0x(key) THEN SubSeq(key, 3, Len(key)) ELSE key
        hex == FromHex(body)
    IN  IF COMMA \in SeqToSet(key)
        THEN IF CommaBytes(key) = <<BadInt>>
             THEN [out |-> None, err |-> "ValueError"]
             ELSE [out |-> CommaBytes(key), err |-> "none"]
        ELSE IF hex # <<BadInt>> THEN [out |-> hex, err |-> "none"]
        ELSE [out |-> Latin1Encode(body), err |-> "none"]

\* "1", "0", "a", "z", ",", "x" and " "
KeyChars == {49, 48, 97, 122, COMMA, 120, SPACE}

\* "1,300", "0x1a0a", "0X1az", "10, 1,0" and "a1 0a"
KeyExamples == {<<49, 44, 51, 48, 48>>, <<48, 120, 49, 97, 48, 97>>, <<48, 88, 49, 97, 122>>, <<49, 48, 44, 32, 49, 44, 48>>, <<97, 49, 32, 48, 97>>}

KeyStrings == SeqsUpTo(KeyChars, MaxKeyLen) \cup KeyExamples

ArgStart == kaOut = None /\ kaErr = "none"

ArgIdle == kaArg = None /\ kaEnv = None /\ kaPc = "idle" /\ ArgStart

ArgInit ==
    /\ kaArg \in KeyStrings \cup {None}
    /\ kaEnv \in IF kaArg = None THEN KeyExamples \cup {None} ELSE {None, <<97>>}
    /\ kaPc = "call"
    /\ ArgStart

\* lines 23-26: no argument and no environment variable
LoadNoKey ==
    /\ kaPc = "call"
    /\ kaArg = None /\ kaEnv = None
    /\ kaOut' = None
    /\ kaPc' = "done"
    /\ UNCHANGED <<kaArg, kaEnv, kaErr, notArgVars>>

\* lines 23-45: the argument, or else the environment variable, is converted
LoadKeyString ==
    /\ kaPc = "call"
    /\ kaArg # None \/ kaEnv # None
    /\ LET r == load_encryption_key(IF kaArg # None THEN kaArg ELSE kaEnv)
       IN  kaOut' = r.out /\ kaErr' = r.err
    /\ kaPc' = "done"
    /\ UNCHANGED <<kaArg, kaEnv, notArgVars>>

NextArg == LoadNoKey \/ LoadKeyString

----------------------------------------------------------------------------
(* export/export.py, export/stl.py, export/obj.py, export/ply.py, mesh.py: export *)

\* The values of ExportFormat: "stl", "obj", "ply"
FormatSTL == <<115, 116, 108>>
FormatOBJ == <<111, 98, 106>>
FormatPLY == <<112, 108, 121>>
ExportFormat == {FormatSTL, FormatOBJ, FormatPLY}

\* str.lstrip(".")
RECURSIVE LStripDot(_)
LStripDot(s) == IF s # <<>> /\ Head(s) = 46 THEN LStripDot(Tail(s)) ELSE s

from_extension_CaseSensitive(path) == IF LStripDot(path.suffix) \in ExportFormat THEN LStripDot(path.suffix) ELSE <<BadInt>>

\* ExportFormat.from_extension: the format, or <<BadInt>> for ValueError
from_extension(path) == IF LStripDot(Lower(path.suffix)) \in ExportFormat THEN LStripDot(Lower(path.suffix)) ELSE <<BadInt>>

\* MaterialConfig(): the default material, and one configured by the caller
DefaultMaterial == <<0>>
CustomMaterial == <<1>>

NoExporter == [kind |-> None, binary |-> TRUE, include_colors |-> TRUE, include_textures |-> TRUE, material |-> None]

\* The constructors; an attribute a class does not have keeps NoExporter's value.
STLExporter(binary) == [NoExporter EXCEPT !.kind = FormatSTL, !.binary = binary]

OBJExporter(material, include_colors, include_textures) == [NoExporter EXCEPT !.kind = FormatOBJ, !.material = IF material = None THEN DefaultMaterial ELSE material, !.include_colors = include_colors, !.include_textures = include_textures]

PLYExporter(binary, include_colors, include_textures) == [NoExporter EXCEPT !.kind = FormatPLY, !.binary = binary, !.include_colors = include_colors, !.include_textures = include_textures]

\* The keyword parameters of export_mesh, and the keywords HPSMesh.export
\* calls it with
ExportMeshKeywords == {"binary", "include_colors", "include_textures"}
MeshExportKeywords == {"binary", "include_colors", "include_textures", "material"}

\* export_mesh up to the exporter it constructs: the error and the exporter
export_mesh(path, export_format, o) ==
    LET fmt == IF export_format = None THEN from_extension(path) ELSE export_format
    IN  IF fmt = <<BadInt>> THEN [err |-> "ValueError", exporter |-> NoExporter]
        ELSE IF fmt = FormatSTL THEN [err |-> "none", exporter |-> STLExporter(o.binary)]
        ELSE IF fmt = FormatOBJ
             THEN [err |-> "none", exporter |-> OBJExporter(None, o.include_colors, o.include_textures)]
        ELSE [err |-> "none", exporter |-> PLYExporter(o.binary, TRUE, o.include_textures)]

\* A file: its name, what it is, and of its content what the options decide
File(name, kind, binary, colors, uv, ref, material) == [name |-> name, kind |-> kind, binary |-> binary, colors |-> colors, uv |-> uv, ref |-> ref, material |-> material]

SuffixMTL == <<46, 109, 116, 108>>
TextureSuffix == <<95, 116, 101, 120, 116, 117, 114, 101, 46, 112, 110, 103>>

PathName(path) == path.stem \o path.suffix

\* STLExporter.export: geometry only
STLFiles(ex, path) == {File(PathName(path), "stl", ex.binary, "none", FALSE, <<>>, None)}

\* Where the vertex colours of an output come from
ColorSource(ex, mesh, bake) ==
    IF bake /\ mesh.textures /\ mesh.uv /\ ex.include_textures THEN "texture"
    ELSE IF mesh.vertex_colors /\ ex.include_colors THEN "vertex"
    ELSE IF mesh.face_colors /\ ex.include_colors THEN "face"
    ELSE "none"

\* PLYExporter.export
PLYFiles(ex, mesh, path) == {File(PathName(path), "ply", ex.binary, ColorSource(ex, mesh, TRUE), FALSE, <<>>, None)}

\* OBJExporter.export: with a texture image and UVs it writes the OBJ, the
\* MTL and the texture image, else the geometry with the colours it has.
OBJFiles(ex, mesh, path) ==
    IF mesh.textures /\ mesh.uv /\ ex.include_textures
    THEN {File(PathName(path), "obj", FALSE, "none", TRUE, path.stem \o SuffixMTL, None),
          File(path.stem \o SuffixMTL, "mtl", FALSE, "none", FALSE, path.stem \o TextureSuffix, ex.material),
          File(path.stem \o TextureSuffix, "png", TRUE, "none", FALSE, <<>>, None)}
    ELSE {File(PathName(path), "obj", FALSE, ColorSource(ex, mesh, FALSE), FALSE, <<>>, None)}

ExporterFiles(ex, mesh, path) ==
    IF ex.kind = FormatSTL THEN STLFiles(ex, path)
    ELSE IF ex.kind = FormatOBJ THEN OBJFiles(ex, mesh, path)
    ELSE PLYFiles(ex, mesh, path)

\* "test" and "a"
ExportStems == {<<116, 101, 115, 116>>, <<97>>}

\* ".stl", ".STL", ".obj", ".Obj", ".ply", ".txt", ".fbx" and no suffix
ExportSuffixes == {<<46, 115, 116, 108>>, <<46, 83, 84, 76>>, <<46, 111, 98, 106>>, <<46, 79, 98, 106>>, <<46, 112, 108, 121>>, <<46, 116, 120, 116>>, <<46, 102, 98, 120>>, <<>>}

ExportMeshes == [vertex_colors : BOOLEAN, face_colors : BOOLEAN, textures : BOOLEAN, uv : BOOLEAN]

ExportOptions == [binary : BOOLEAN, include_colors : BOOLEAN, include_textures : BOOLEAN, material : {None, CustomMaterial}]

ExportStart == xExporter = NoExporter /\ xFiles = {} /\ xErr = "none"

ExportIdle ==
    /\ xVia = "none"
    /\ xMesh = [vertex_colors |-> FALSE, face_colors |-> FALSE, textures |-> FALSE, uv |-> FALSE]
    /\ xPath = [stem |-> <<>>, suffix |-> <<>>]
    /\ xFormat = None
    /\ xOpts = [binary |-> TRUE, include_colors |-> TRUE, include_textures |-> TRUE, material |-> None]
    /\ xPc = "idle"
    /\ ExportStart

ExportInit ==
    /\ xVia \in {"HPSMesh.export", "export_mesh", "exporter"}
    /\ xMesh \in ExportMeshes
    /\ xPath \in [stem : ExportStems, suffix : ExportSuffixes]
    /\ xFormat \in IF xVia = "exporter" THEN ExportFormat ELSE ExportFormat \cup {None}
    /\ xOpts \in ExportOptions
    /\ xVia = "export_mesh" => xOpts.material = None
    /\ xPc = "call"
    /\ ExportStart

\* mesh.py 202-209: HPSMesh.export calls export_mesh with its keywords; a
\* keyword export_mesh does not have is a TypeError.
HPSMesh_export(path, export_format, o) ==
    IF MeshExportKeywords \subseteq ExportMeshKeywords
    THEN export_mesh(path, export_format, o)
    ELSE [err |-> "TypeError", exporter |-> NoExporter]

MeshExport ==
    /\ xPc = "call" /\ xVia = "HPSMesh.export"
    /\ LET r == HPSMesh_export(xPath, xFormat, xOpts)
       IN  /\ xErr' = r.err
           /\ xExporter' = r.exporter
           /\ xPc' = IF r.err = "none" THEN "export" ELSE "done"
    /\ UNCHANGED <<xVia, xMesh, xPath, xFormat, xOpts, xFiles, notExportVars>>

\* export.py 64-74: the format is settled and the exporter constructed
ExportMesh ==
    /\ xPc = "call" /\ xVia = "export_mesh"
    /\ LET r == export_mesh(xPath, xFormat, xOpts)
       IN  /\ xErr' = r.err
           /\ xExporter' = r.exporter
           /\ xPc' = IF r.err = "none" THEN "export" ELSE "done"
    /\ UNCHANGED <<xVia, xMesh, xPath, xFormat, xOpts, xFiles, notExportVars>>

\* The caller constructs the exporter of the format with every option
Construct ==
    /\ xPc = "call" /\ xVia = "exporter"
    /\ xExporter' = IF xFormat = FormatSTL THEN STLExporter(xOpts.binary)
                    ELSE IF xFormat = FormatOBJ
                         THEN OBJExporter(xOpts.material, xOpts.include_colors, xOpts.include_textures)
                         ELSE PLYExporter(xOpts.binary, xOpts.include_colors, xOpts.include_textures)
    /\ xPc' = "export"
    /\ UNCHANGED <<xVia, xMesh, xPath, xFormat, xOpts, xFiles, xErr, notExportVars>>

\* exporter.export(mesh, output_path)
ExporterExport ==
    /\ xPc = "export"
    /\ xFiles' = ExporterFiles(xExporter, xMesh, xPath)
    /\ xPc' = "done"
    /\ UNCHANGED <<xVia, xMesh, xPath, xFormat, xOpts, xExporter, xErr, notExportVars>>

NextExport == MeshExport \/ ExportMesh \/ Construct \/ ExporterExport

----------------------------------------------------------------------------
(* __main__.py: export_command *)

\* The exceptions of load_hps that lines 237-248 catch
CaughtFromLoad == {"FileNotFoundError", "HPSSchemaError", "HPSParseError", "HPSEncryptionError"}

\* The exceptions of mesh.export that lines 264-269 catch
CaughtFromExport == {"ValueError", "OSError"}

\* None, "1,300" and "a"
CliKeys == {None, <<49, 44, 51, 48, 48>>, <<97>>}

\* What ET.parse finds at args.input
CliFiles == {"ok", "missing", "malformed", "directory"}

\* "test.ply" and "test.fbx"
CliOutputs == {[stem |-> <<116, 101, 115, 116>>, suffix |-> <<46, 112, 108, 121>>], [stem |-> <<116, 101, 115, 116>>, suffix |-> <<46, 102, 98, 120>>]}

CliOptions == [binary : BOOLEAN, include_colors : BOOLEAN, include_textures : BOOLEAN, material : {DefaultMaterial, CustomMaterial}]

CliStart == cliExit = NoInt /\ cliStderr = FALSE /\ cliUncaught = "none" /\ cliWritten = FALSE

CliIdle == cliPc = "idle" /\ CliStart

CliInit == cliPc = "key" /\ CliStart

\* return 1 after a diagnostic on standard error
CliFail ==
    /\ cliPc' = "done"
    /\ cliExit' = 1
    /\ cliStderr' = TRUE
    /\ UNCHANGED <<cliUncaught, cliWritten>>

\* an exception nothing catches
CliEscape(kind) ==
    /\ cliPc' = "done"
    /\ cliUncaught' = kind
    /\ UNCHANGED <<cliExit, cliStderr, cliWritten>>

\* lines 231-235: the key argument
CliKey ==
    /\ cliPc = "key"
    /\ \E key \in CliKeys :
          IF key # None /\ load_encryption_key(key).err = "ValueError"
          THEN CliFail
          ELSE cliPc' = "open" /\ UNCHANGED <<cliExit, cliStderr, cliUncaught, cliWritten>>
    /\ UNCHANGED notCliVars

\* loader.py 309: load_hps parses the file; lines 237-241 of __main__.py
\* catch a missing file, and nothing catches a file that is not XML
\* (ParseError) or cannot be read (another OSError).
CliOpen ==
    /\ cliPc = "open"
    /\ lPc = "idle"
    /\ \E file \in CliFiles :
          IF file = "ok"
          THEN /\ cliPc' = "load" /\ lPc' = "schema"
               /\ UNCHANGED <<cliExit, cliStderr, cliUncaught, cliWritten>>
          ELSE /\ UNCHANGED lPc
               /\ IF file = "missing" THEN CliFail
                  ELSE IF file = "malformed" THEN CliEscape("ParseError")
                  ELSE CliEscape("IsADirectoryError")
    /\ UNCHANGED <<env, lErr, lTrace, loc, ctx, ce, result, ret, notCliLoadVars>>

\* lines 237-250: load_hps has returned or raised
CliLoaded ==
    /\ cliPc = "load"
    /\ lPc \in {"returned", "raised"}
    /\ IF lPc = "returned"
       THEN cliPc' = "material" /\ UNCHANGED <<cliExit, cliStderr, cliUncaught, cliWritten>>
       ELSE IF lErr \in CaughtFromLoad THEN CliFail
       ELSE CliEscape(lErr)
    /\ UNCHANGED notCliVars

\* lines 252-253: the format and the material options, outside any try
CliMaterial ==
    /\ cliPc = "material"
    /\ \E material \in {"valid", "out of range"} :
          IF material = "valid"
          THEN cliPc' = "export" /\ UNCHANGED <<cliExit, cliStderr, cliUncaught, cliWritten>>
          ELSE CliEscape("ValueError")
    /\ UNCHANGED notCliVars

\* lines 255-274: mesh.export, then the size of the output and return 0
CliExport ==
    /\ cliPc = "export"
    /\ \E path \in CliOutputs, export_format \in ExportFormat \cup {None}, o \in CliOptions, disk \in {"ok", "fails"} :
          LET r == HPSMesh_export(path, export_format, o)
              err == IF r.err # "none" THEN r.err
                     ELSE IF disk = "fails" THEN "OSError" ELSE "none"
          IN  IF err = "none"
              THEN /\ cliPc' = "done" /\ cliExit' = 0 /\ cliWritten' = TRUE
                   /\ UNCHANGED <<cliStderr, cliUncaught>>
              ELSE IF err \in CaughtFromExport THEN CliFail
              ELSE CliEscape(err)
    /\ UNCHANGED notCliVars

NextCli == CliKey \/ CliOpen \/ CliLoaded \/ CliMaterial \/ CliExport \/ NextLoad

----------------------------------------------------------------------------
(* Specifications *)

\* Each specification starts one of the four parts and leaves the others idle.
InitKey == KeyInit /\ DecIdle /\ LoadIdle /\ UVIdle /\ CoordIdle /\ ReaderIdle /\ StripIdle /\ ColorIdle /\ DedupIdle /\ ArgIdle /\ ExportIdle /\ CliIdle
InitDec == KeyIdle /\ DecInit /\ LoadIdle /\ UVIdle /\ CoordIdle /\ ReaderIdle /\ StripIdle /\ ColorIdle /\ DedupIdle /\ ArgIdle /\ ExportIdle /\ CliIdle
InitLoad == KeyIdle /\ DecIdle /\ LoadInit /\ UVIdle /\ CoordIdle /\ ReaderIdle /\ StripIdle /\ ColorIdle /\ DedupIdle /\ ArgIdle /\ ExportIdle /\ CliIdle
InitCE == KeyIdle /\ DecIdle /\ CEInit /\ UVIdle /\ CoordIdle /\ ReaderIdle /\ StripIdle /\ ColorIdle /\ DedupIdle /\ ArgIdle /\ ExportIdle /\ CliIdle
InitAnnot == KeyIdle /\ DecIdle /\ AnnotInit /\ UVIdle /\ CoordIdle /\ ReaderIdle /\ StripIdle /\ ColorIdle /\ DedupIdle /\ ArgIdle /\ ExportIdle /\ CliIdle
InitStrip == KeyIdle /\ DecIdle /\ LoadIdle /\ UVIdle /\ CoordIdle /\ ReaderIdle /\ StripInit /\ ColorIdle /\ DedupIdle /\ ArgIdle /\ ExportIdle /\ CliIdle
InitColor == KeyIdle /\ DecIdle /\ LoadIdle /\ UVIdle /\ CoordIdle /\ ReaderIdle /\ StripIdle /\ ColorInit /\ DedupIdle /\ ArgIdle /\ ExportIdle /\ CliIdle
InitDedup == KeyIdle /\ DecIdle /\ LoadIdle /\ UVIdle /\ CoordIdle /\ ReaderIdle /\ StripIdle /\ ColorIdle /\ DedupInit /\ ArgIdle /\ ExportIdle /\ CliIdle
InitArg == KeyIdle /\ DecIdle /\ LoadIdle /\ UVIdle /\ CoordIdle /\ ReaderIdle /\ StripIdle /\ ColorIdle /\ DedupIdle /\ ArgInit /\ ExportIdle /\ CliIdle
InitExport == KeyIdle /\ DecIdle /\ LoadIdle /\ UVIdle /\ CoordIdle /\ ReaderIdle /\ StripIdle /\ ColorIdle /\ DedupIdle /\ ArgIdle /\ ExportInit /\ CliIdle
InitCli == KeyIdle /\ DecIdle /\ CliLoadInit /\ UVIdle /\ CoordIdle /\ ReaderIdle /\ StripIdle /\ ColorIdle /\ DedupIdle /\ ArgIdle /\ ExportIdle /\ CliInit
InitUV == KeyIdle /\ DecIdle /\ LoadIdle /\ UVInit /\ CoordIdle /\ ReaderIdle /\ StripIdle /\ ColorIdle /\ DedupIdle /\ ArgIdle /\ ExportIdle /\ CliIdle

InitCoord == KeyIdle /\ DecIdle /\ LoadIdle /\ UVIdle /\ CoordInit /\ ReaderIdle /\ StripIdle /\ ColorIdle /\ DedupIdle /\ ArgIdle /\ ExportIdle /\ CliIdle

InitReader == KeyIdle /\ DecIdle /\ LoadIdle /\ UVIdle /\ CoordIdle /\ ReaderInit /\ StripIdle /\ ColorIdle /\ DedupIdle /\ ArgIdle /\ ExportIdle /\ CliIdle

SpecKey == InitKey /\ [][NextKey]_vars

SpecDec == InitDec /\ [][NextDec]_vars

SpecLoad == InitLoad /\ [][NextLoad]_vars

SpecCE == InitCE /\ [][NextCE]_vars

SpecAnnot == InitAnnot /\ [][NextLoad]_vars

SpecStrip == InitStrip /\ [][NextStrip]_vars

SpecColor == InitColor /\ [][NextColor]_vars

SpecDedup == InitDedup /\ [][NextDedup]_vars

SpecArg == InitArg /\ [][NextArg]_vars

SpecExport == InitExport /\ [][NextExport]_vars

SpecCli == InitCli /\ [][NextCli]_vars

SpecUV == InitUV /\ [][NextUV]_vars

SpecCoord == InitCoord /\ [][NextCoord]_vars

SpecReader == InitReader /\ [][NextReader]_vars

----------------------------------------------------------------------------
(* Claims about the key derivation (SpecKey) *)

kEkid == PropGet(kProps, HPS_ATTR_ENCRYPTION_KEY_ID)
kLockList == PropGet(kProps, HPS_ATTR_PACKAGE_LOCK_LIST)

\* The non-empty tokens of a ';'-separated value: its maximal non-empty
\* runs of characters other than ';'.
TokenSet(value) ==
    IF value = None THEN {}
    ELSE {SubSeq(value, i, j) : <<i, j>> \in
            {r \in (DOMAIN value) \X (DOMAIN value) :
                /\ r[1] <= r[2]
                /\ \A k \in r[1]..r[2] : value[k] # SEMICOLON
                /\ (r[1] = 1 \/ value[r[1] - 1] = SEMICOLON)
                /\ (r[2] = Len(value) \/ value[r[2] + 1] = SEMICOLON)}}

\* Every token of the set, in sorted order, each followed by ';'.
RECURSIVE TokensTerminated(_)
TokensTerminated(S) ==
    IF S = {} THEN <<>>
    ELSE LET m == CHOOSE x \in S : \A y \in S : x = y \/ StrLess(x, y)
         IN  m \o <<SEMICOLON>> \o TokensTerminated(S \ {m})

\* C6 as stated: EKID absent selects the package hash (else the base key);
\* EKID "1" with a package hash concatenates; every other EKID value, the
\* empty string included, leaves the base key unchanged.
C6_AsStated ==
    kPc \in {"derived", "done"} =>
        kKey = IF kEkid = None
               THEN (IF kHash # None THEN kHash ELSE kBase)
               ELSE IF kEkid = <<Digit1>> /\ kHash # None THEN kBase \o kHash
               ELSE kBase

\* C6 amended: an EKID that is absent or the empty string selects the
\* package hash when one exists and the base key otherwise; EKID "1" with a
\* package hash gives base_key followed by package_hash; every other case
\* gives the base key unchanged.
C6_EffectiveKey ==
    kPc \in {"derived", "done"} =>
        /\ (kEkid \in {None, <<>>} /\ kHash # None) => kKey = kHash
        /\ (kEkid \in {None, <<>>} /\ kHash = None) => kKey = kBase
        /\ (kEkid = <<Digit1>> /\ kHash # None) => kKey = kBase \o kHash
        /\ (kEkid \notin {None, <<>>, <<Digit1>>} \/ (kEkid = <<Digit1>> /\ kHash = None))
              => kKey = kBase

C6_Witness ==
    /\ kPc = "derived"
    /\ kEkid = <<Digit1>>
    /\ kHash # None
    /\ kBase # <<>>
    /\ kKey = kBase \o kHash

\* C9: the package hash is a function of the set of non-empty tokens only:
\* equal token sets give equal hashes, an absent, empty or separator-only
\* value gives no hash, and otherwise the hash is the digest of the sorted
\* distinct tokens, each followed by ';'.
C9_HashOfTokenSet ==
    kPc = "done" =>
        /\ TokenSet(kLockList) = TokenSet(kOther) => kHash = kHashOther
        /\ TokenSet(kLockList) = {} => kHash = None
        /\ TokenSet(kOther) = {} => kHashOther = None
        /\ TokenSet(kLockList) # {}
              => kHash = MD5HexUpper(TokensTerminated(TokenSet(kLockList)))

C9_Witness ==
    /\ kPc = "done"
    /\ kLockList # None /\ kOther # None
    /\ Len(kLockList) # Len(kOther)
    /\ Cardinality(TokenSet(kLockList)) = 1
    /\ Len(SelectNonEmpty(Split(kOther, SEMICOLON))) = 2
    /\ TokenSet(kLockList) = TokenSet(kOther)
    /\ kHash # None
    /\ kHash = kHashOther

----------------------------------------------------------------------------
(* Claims about one blob (SpecDec) *)

\* The number an attribute string denotes.
Denoted(attr) == CHOOSE n \in 0..99 : DecimalStr(n) = attr

\* The key that goes with the element: scrambled when it has a Key attribute.
KeyFor(element, key) == IF element.key # None THEN Reverse(key) ELSE key

\* The ciphertext with each complete 8-byte block decrypted on its own and
\* the trailing bytes as they are.
BlockwisePlain(key, c) ==
    [i \in 1..Len(c) |->
        IF i <= 8 * (Len(c) \div 8)
        THEN DecryptBlock(key, SubSeq(c, 8 * ((i - 1) \div 8) + 1,
                                         8 * ((i - 1) \div 8) + 8))[((i - 1) % 8) + 1]
        ELSE c[i]]

\* C8: the output of decrypting an encrypted blob is the ciphertext with its
\* complete blocks decrypted independently and its trailing |C| mod 8 bytes
\* unchanged, cut to the size the element's size attribute gives (when it
\* is present, non-empty and at most |C|), else of length |C|.
C8_BlocksTailTruncation ==
    (dPc = "done" /\ dBlob.enc) =>
        LET c == dElem.bytes
            carries == dElem.size \notin {None, <<>>}
        IN  /\ (~carries => Len(dOut) = Len(c))
            /\ (carries /\ Denoted(dElem.size) <= Len(c)
                    => Len(dOut) = Denoted(dElem.size))
            /\ dOut = SubSeq(BlockwisePlain(KeyFor(dElem, dKey), c), 1, Len(dOut))

C8_Witness ==
    /\ dPc = "done"
    /\ dBlob.enc
    /\ Len(dElem.bytes) = 2 * BLOCK_SIZE + 1
    /\ dElem.size = DecimalStr(12)
    /\ Len(dOut) = 12
    /\ SubSeq(dOut, 1, 8) # SubSeq(dElem.bytes, 1, 8)

----------------------------------------------------------------------------
(* Claims about load_hps (SpecLoad) *)

\* The count an attribute declares; an absent attribute reads as "0".
Declared(attr) == IF attr = None THEN 0 ELSE Denoted(attr)

lFinished == lPc \in {"returned", "raised"}

\* C1: a returned mesh has exactly the declared numbers of vertices and
\* faces; when the parser's mesh differs in either, load_hps raises
\* HPSParseError, for the vertex count first, and returns nothing.
C1_CountConservation ==
    /\ lPc = "returned" =>
          /\ ret.num_vertices = Declared(env.vertex_count)
          /\ Len(ret.faces) = Declared(env.facet_count)
    /\ (lFinished /\ result # NoMesh) =>
          LET vdiff == result.num_vertices # Declared(env.vertex_count)
              fdiff == Len(result.faces) # Declared(env.facet_count)
          IN  /\ (vdiff \/ fdiff) => (lPc = "raised" /\ lErr = "HPSParseError" /\ ret = NoMesh)
              /\ vdiff => lTrace[Len(lTrace)] = "mismatch:vertex"
              /\ (~vdiff /\ fdiff) => lTrace[Len(lTrace)] = "mismatch:face"

C1_Witness ==
    /\ lPc = "raised"
    /\ lErr = "HPSParseError"
    /\ result # NoMesh
    /\ result.num_vertices # Declared(env.vertex_count)
    /\ Len(result.faces) # Declared(env.facet_count)

\* The vertex indices a face stream names, one per delta-coded number, in
\* stream order and with no regard for the vertex count.
RECURSIVE IndicesNamed(_, _)
IndicesNamed(raws, hwm) ==
    IF raws = <<>> THEN <<>>
    ELSE <<DecodeIndex(hwm, Head(raws)).idx>>
            \o IndicesNamed(Tail(raws), DecodeIndex(hwm, Head(raws)).hwm)

StreamRaws(cmds) == Flatten([i \in DOMAIN cmds |-> cmds[i].raw])

NamesInvalidIndex(cmds, vertex_count) ==
    \E i \in DOMAIN IndicesNamed(StreamRaws(cmds), -1) :
        IndicesNamed(StreamRaws(cmds), -1)[i] \notin 0..(vertex_count - 1)

\* C2: every index of every face of a returned mesh is in [0, vertex_count);
\* a face stream naming an index outside that range never yields a mesh,
\* and the invalid-index failure happens only for such a stream.
C2_IndexValidity ==
    /\ lPc = "returned" =>
          \A f \in DOMAIN ret.faces : \A c \in 1..3 :
              0 <= ret.faces[f][c] /\ ret.faces[f][c] < Declared(env.vertex_count)
    /\ (lPc \in {"counts", "returned"}) =>
          ~NamesInvalidIndex(ctx.face_data, Declared(env.vertex_count))
    /\ lErr = "InvalidIndex" =>
          NamesInvalidIndex(ctx.face_data, Declared(env.vertex_count))

C2_Witness ==
    /\ lPc = "returned"
    /\ Len(ret.faces) = 2
    /\ ret.num_vertices = 3
    /\ ret.faces[2][3] < ret.faces[2][2]

SchemaTexts == {"CA", "CB", "CC", "CE"}

Malformed ==
    \/ env.schema = "absent"
    \/ /\ env.schema \in {"CA", "CC", "CE"}
       /\ \/ ~env.hasData
          \/ env.vertices = NoElement
          \/ env.facets = NoElement
          \/ env.vertex_count = None
          \/ env.facet_count = None
          \/ env.vertices.text \in {"padding", "junk"}
          \/ env.facets.text \in {"padding", "junk"}

\* C4: on a malformed envelope load_hps fails with HPSParseError and
\* returns no mesh.
C4_MalformedEnvelope ==
    (lFinished /\ Malformed) => (lErr = "HPSParseError" /\ ret = NoMesh)

----------------------------------------------------------------------------
(* Claims about a CE decode (SpecCE) *)

cvSet == env.check_value \notin {None, <<>>}

PastIntegrity ==
    lPc \in {"ce_texcoords", "ce_colors", "ce_images", "ce_super", "counts", "returned"}
        \/ (lPc = "raised" /\ ce.vertex # None)

\* C5: with check_value set the decode fails with the integrity error
\* exactly when the Adler-32 of the decrypted, size-truncated vertex bytes,
\* its four bytes reversed, differs from check_value; without check_value
\* the integrity error never occurs.
C5_IntegrityCheck ==
    /\ PastIntegrity =>
          (lErr = "HPSEncryptionError"
              <=> (cvSet /\ Reverse(adler32(ce.vertex)) # env.check_value))
    /\ ~cvSet => lErr # "HPSEncryptionError"

C5_Witness ==
    /\ lErr = "HPSEncryptionError"
    /\ env.check_value = adler32(ce.vertex)

\* The image elements in the order of the loader's list: by the first path
\* that matches the element, then by document order.
FirstPath(i) == CHOOSE p \in env.images[i].paths : \A q \in env.images[i].paths : p <= q

ImagesOfPath(p) ==
    SelectSeq([i \in DOMAIN env.images |-> env.images[i]],
              LAMBDA e : (CHOOSE q \in e.paths : \A r \in e.paths : q <= r) = p)

ImagesInOrder == ImagesOfPath(1) \o ImagesOfPath(2) \o ImagesOfPath(3) \o ImagesOfPath(4)

Encryptable(e) == e.paths \cap {1, 2, 3} # {}

\* What decrypting the element's payload gives when its own Key attribute
\* alone selects the key.
OwnKeyPlain(element) ==
    LET full == BlockwisePlain(KeyFor(element, ce.key), element.bytes)
    IN  IF element.size \in {None, <<>>} THEN full
        ELSE SubSeq(full, 1, Min(Denoted(element.size), Len(full)))

\* C7: in a CE decode every encrypted blob is decrypted with the scrambled
\* key exactly when its own element has a Key attribute, whatever the other
\* elements have, and a plain blob comes out as it went in.
C7_PerBlobScrambling ==
    lPc \in {"ce_super", "counts", "returned"} =>
        /\ ce.vertex = OwnKeyPlain(env.vertices)
        /\ env.perVertexTextureCoord # NoElement
              => ce.texture_coords = OwnKeyPlain(env.perVertexTextureCoord)
        /\ env.vertexColorSet # NoElement
              => ce.vertex_colors = OwnKeyPlain(env.vertexColorSet)
        /\ Len(ce.texture_images) = Len(ImagesInOrder)
        /\ \A i \in DOMAIN ImagesInOrder :
              ce.texture_images[i] =
                  IF Encryptable(ImagesInOrder[i])
                  THEN OwnKeyPlain(ImagesInOrder[i].elem)
                  ELSE ImagesInOrder[i].elem.bytes

C7_Witness ==
    /\ lPc = "ce_super"
    /\ env.vertices.key = None
    /\ ce.vertex = BlockwisePlain(ce.key, env.vertices.bytes)
    /\ Len(env.images) = 2
    /\ env.images[1].paths = {4} /\ env.images[1].elem.key # None
    /\ env.images[2].paths = {1} /\ env.images[2].elem.key # None
    /\ ce.texture_images[1] = BlockwisePlain(Reverse(ce.key), ImageBytes)
    /\ ce.texture_images[1] # BlockwisePlain(ce.key, ImageBytes)
    /\ ce.texture_images[2] = ImageBytes

----------------------------------------------------------------------------
(* Claims about parse_texture_coords (SpecUV) *)

\* C10: the UV array has 3 * face_count rows of 2 components from the
\* moment it exists to the return, whatever flags the records carry.
C10_UVShape ==
    uvPc \in {"loop", "returned"} =>
        /\ Len(uvs) = 3 * Len(uvFaces)
        /\ \A i \in DOMAIN uvs : Len(uvs[i]) = 2

C10_Witness ==
    /\ uvPc = "returned"
    /\ Len(uvFaces) = 2
    /\ uvFlags = <<2, 255, 1>>
    /\ Len(uvs) = 6
    /\ uvs[1] # <<0, 0>>

\* The corners (3 * face + corner, from 0) that reference vertex v.
CornerSet(v) ==
    {3 * (f - 1) + (c - 1) : <<f, c>> \in
        {fc \in (DOMAIN uvFaces) \X (1..3) : uvFaces[fc[1]][fc[2]] = v}}

Degree(v) == Cardinality(CornerSet(v))

\* The i-th corner of v by face index, corners of one face in corner order.
NthCorner(v, i) ==
    CHOOSE c \in CornerSet(v) : Cardinality({d \in CornerSet(v) : d < c}) = i - 1

\* Where the record of vertex v starts when the records before it are
\* complete: a flag byte, then one UV for flag 1 and one UV per corner
\* otherwise.
RECURSIVE RecordStart(_)
RecordStart(v) ==
    IF v = 0 THEN 0
    ELSE LET s == RecordStart(v - 1)
         IN  s + 1 + 4 * (IF uvData[s + 1] = 1 THEN 1 ELSE Degree(v - 1))

FlagAt(v) == uvData[RecordStart(v) + 1]

\* The i-th packed UV of the record of vertex v.
WordAt(v, i) ==
    SubSeq(uvData, RecordStart(v) + 4 * (i - 1) + 2, RecordStart(v) + 4 * (i - 1) + 5)

uvRunning == uvPc \in {"loop", "returned"} \/ (uvPc = "raised" /\ uvErr # "IndexError")

\* C11: the records are read one per vertex in vertex order; flag 1 is one
\* UV for every corner of the vertex, flag 0xFF or the corner count is one
\* UV per corner, and any other flag fails with the mismatch error at that
\* vertex with only its flag byte read.
C11_RecordFlags ==
    uvRunning =>
        /\ \A k \in 0..(uvVertex - 1) :
              /\ uvFlags[k + 1] = FlagAt(k)
              /\ FlagAt(k) \in {1, 255, Degree(k)}
              /\ (FlagAt(k) = 1 /\ WordAt(k, 1) # WFF) =>
                    \A c \in CornerSet(k) : uvs[c + 1] = decompress_texture_coord(WordAt(k, 1))
        /\ uvPc \in {"loop", "returned"} =>
              (Len(uvFlags) = uvVertex /\ uvPos = RecordStart(uvVertex))
        /\ uvErr = "ValueError:mismatch" =>
              /\ Len(uvFlags) = uvVertex + 1
              /\ uvFlags[uvVertex + 1] = FlagAt(uvVertex)
              /\ FlagAt(uvVertex) \notin {1, 255, Degree(uvVertex)}
              /\ uvPos = RecordStart(uvVertex) + 1
        /\ (uvPc = "raised" /\ Len(uvFlags) = uvVertex + 1
                /\ uvFlags[uvVertex + 1] \notin {1, 255, Degree(uvVertex)})
              => uvErr = "ValueError:mismatch"

C11_Witness ==
    /\ uvErr = "ValueError:mismatch"
    /\ uvVertex = 1
    /\ uvFlags = <<1, 5>>
    /\ Degree(0) = 2
    /\ uvs[1] = decompress_texture_coord(W1)
    /\ uvs[4] = decompress_texture_coord(W1)

\* C12: in a record of several UVs the i-th UV goes to the vertex's corner
\* in the i-th lowest face, so each corner of the vertex gets its own UV,
\* and the corners of the vertices not yet read are untouched.
C12_BindingOrder ==
    uvPc \in {"loop", "returned"} =>
        /\ \A k \in 0..(uvVertex - 1) :
              FlagAt(k) # 1 =>
                  \A i \in 1..Degree(k) :
                      WordAt(k, i) # WFF =>
                          uvs[NthCorner(k, i) + 1] = decompress_texture_coord(WordAt(k, i))
        /\ \A k \in uvVertex..(uvVerts - 1) :
              \A c \in CornerSet(k) : uvs[c + 1] = <<0, 0>>

C12_Witness ==
    /\ uvPc = "returned"
    /\ Len(uvFaces) = 2
    /\ uvFlags = <<2, 255, 1>>
    /\ uvs[1] = decompress_texture_coord(W1)
    /\ uvs[4] = decompress_texture_coord(W2)
    /\ uvs[1] # uvs[4]

\* C13: a packed UV of 0xFFFFFFFF leaves its corner, or all corners of the
\* vertex in the single-UV form, at (0, 0), not at the (256, 256) its
\* components would decode to, and its four bytes are consumed.
C13_NoUVMarker ==
    uvPc \in {"loop", "returned"} =>
        /\ \A k \in 0..(uvVertex - 1) :
              /\ (FlagAt(k) = 1 /\ WordAt(k, 1) = WFF) =>
                    \A c \in CornerSet(k) : uvs[c + 1] = <<0, 0>>
              /\ FlagAt(k) # 1 =>
                    \A i \in 1..Degree(k) :
                        WordAt(k, i) = WFF => uvs[NthCorner(k, i) + 1] = <<0, 0>>
        /\ uvPos = RecordStart(uvVertex)

C13_Witness ==
    /\ uvPc = "returned"
    /\ Len(uvFaces) = 1
    /\ uvVerts = 3
    /\ uvData = <<1>> \o WFF \o <<1>> \o WFF \o <<1>> \o WFF
    /\ uvs = <<<<0, 0>>, <<0, 0>>, <<0, 0>>>>
    /\ uvPos = 15

----------------------------------------------------------------------------
(* Claims about decompress_texture_coord (SpecCoord) *)

\* The 16-bit components of the packed word.
LowHalf == cWord[1] + 256 * cWord[2]
HighHalf == cWord[3] + 256 * cWord[4]

\* What a component decodes to, as a numerator over 32767: raw for bit 15
\* clear, (raw & 0x7FFF) * 512 - 256 * 32767 for bit 15 set.
ComponentOf(raw, x) ==
    /\ raw < 32768 => (x = raw /\ 0 <= x /\ x <= 32767)
    /\ raw >= 32768 =>
          /\ x = (raw - 32768) * 512 - 256 * 32767
          /\ -256 * 32767 <= x /\ x <= 256 * 32767
    /\ raw = 0 => x = 0
    /\ raw = 32767 => x = 32767
    /\ raw = 32768 => x = -256 * 32767
    /\ raw = 65535 => x = 256 * 32767

\* C14: U is decoded from the low and V from the high 16 bits; a component
\* with bit 15 clear is raw/32767 within [0, 1], one with bit 15 set is
\* (raw & 0x7FFF)*512/32767 - 256 within [-256, 256], and 0, 1, -256 and
\* 256 are reached at 0x0000, 0x7FFF, 0x8000 and 0xFFFF.
C14_ComponentDecoding ==
    cPc = "done" => (ComponentOf(LowHalf, cUV[1]) /\ ComponentOf(HighHalf, cUV[2]))

C14_Witness ==
    /\ cPc = "done"
    /\ LowHalf = 32767
    /\ HighHalf = 65535
    /\ cUV = <<32767, 256 * 32767>>

----------------------------------------------------------------------------
(* Claims about BinaryReader (SpecReader) *)

\* The bits of the data in stream order: of each byte the bit of weight
\* 128 first and the bit of weight 1 last.
StreamBits(data) ==
    [i \in 1..(8 * Len(data)) |->
        LET byte == data[((i - 1) \div 8) + 1]
            weight == 2 ^ (7 - ((i - 1) % 8))
        IN  IF (byte % (2 * weight)) >= weight THEN 1 ELSE 0]

\* The unsigned integer a tuple of bits denotes, first bit most significant.
RECURSIVE BitsValue(_)
BitsValue(bits) ==
    IF bits = <<>> THEN 0
    ELSE 2 * BitsValue(SubSeq(bits, 1, Len(bits) - 1)) + bits[Len(bits)]

\* The bits consumed or discarded so far, and where the last call started.
Consumed == 8 * rByte + rBit
StartedAt == 8 * rLast.byte + rLast.bit
AlignedStart == IF rLast.bit > 0 THEN rLast.byte + 1 ELSE rLast.byte

\* C15: read_bits(n) returns the next n bits of the stream, the most
\* significant bit of each byte first and across byte boundaries, and the
\* results of a run of read_bits calls, concatenated, are the stream prefix.
C15_BitsMSBFirst ==
    /\ (rLast.op = "read_bits" /\ rErr = "none") =>
          /\ Len(rLast.out) = rLast.n
          /\ rLast.out = SubSeq(StreamBits(rData), StartedAt + 1, StartedAt + rLast.n)
          /\ Consumed = StartedAt + rLast.n
          /\ (rLast.n = 8 /\ rLast.bit = 0) => BitsValue(rLast.out) = rData[rLast.byte + 1]
    /\ (rPc = "ready" /\ rOnlyBits) => rStream = SubSeq(StreamBits(rData), 1, Consumed)

C15_Witness ==
    /\ rPc = "ready"
    /\ rOnlyBits
    /\ rLast.op = "read_bits"
    /\ rLast.n = 13
    /\ rLast.bit = 3
    /\ rData[1] = 166 /\ rData[2] = 49
    /\ rLast.out = <<0, 0, 1, 1, 0, 0, 0, 1, 1, 0, 0, 0, 1>>
    /\ Len(rStream) = 16

\* C16: a non-bit read made while a byte is partially consumed starts at the
\* next byte boundary, as it would after align_to_byte; align_to_byte
\* discards the rest of a partially consumed byte and does nothing on a
\* byte boundary.
C16_AlignBeforeRead ==
    /\ (rLast.op \in ReaderOps /\ rErr = "none") =>
          LET width == ReadWidth(rLast.op, rLast.n)
          IN  /\ rLast.out = ReadValue(rLast.op,
                                SubSeq(rData, AlignedStart + 1, AlignedStart + width))
              /\ rByte = AlignedStart + width
              /\ rBit = 0
    /\ rLast.op = "align_to_byte" =>
          /\ rBit = 0
          /\ rLast.bit = 0 => rByte = rLast.byte
          /\ rLast.bit > 0 => rByte = rLast.byte + 1

C16_Witness ==
    /\ rPc = "ready"
    /\ rLast.op = "read_uint16"
    /\ rLast.byte = 0 /\ rLast.bit = 3
    /\ rData[1] = 166 /\ rData[2] = 49 /\ rData[3] = 166
    /\ rLast.out = <<49 + 256 * 166>>
    /\ rByte = 3

\* C17: a call that asks for more bytes or bits than remain fails with
\* EOFError, read_bits with a count outside 1..32 fails with ValueError
\* whatever remains, no value is returned, and nothing else fails.
C17_ReaderErrors ==
    LET badCount == rLast.op = "read_bits" /\ (rLast.n < 1 \/ rLast.n > 32)
        bitsShort == /\ rLast.op = "read_bits"
                     /\ rLast.n >= 1 /\ rLast.n <= 32
                     /\ rLast.n > 8 * Len(rData) - StartedAt
        bytesShort == /\ rLast.op \in ReaderOps
                      /\ ReadWidth(rLast.op, rLast.n) > Len(rData) - AlignedStart
    IN  /\ badCount => (rErr = "ValueError" /\ rLast.out = None)
        /\ bitsShort => (rErr = "EOFError" /\ rLast.out = None)
        /\ bytesShort => (rErr = "EOFError" /\ rLast.out = None)
        /\ rErr = "ValueError" => badCount
        /\ rErr = "EOFError" => (bitsShort \/ bytesShort)
        /\ rErr \in {"none", "ValueError", "EOFError"}

C17_Witness ==
    /\ rErr = "ValueError"
    /\ rLast.op = "read_bits"
    /\ rLast.n = 33
    /\ Len(rData) = 4
    /\ rByte = 1

\* C18: position is the number of fully consumed bytes: it is within
\* [0, len(data)], never decreases, stays where it is for a read_bits call
\* that leaves the current byte partially consumed and advances when the
\* byte's last bit is consumed.
C18_Position ==
    rPc \in {"ready", "raised"} =>
        /\ position = Consumed \div 8
        /\ 0 <= position /\ position <= Len(rData)
        /\ rLast.before <= rLast.after
        /\ rLast.after = position
        /\ (rLast.op = "read_bits" /\ rErr = "none") =>
              /\ rLast.bit + rLast.n < 8 => rLast.after = rLast.before
              /\ rLast.bit + rLast.n >= 8 =>
                    rLast.after = rLast.before + ((rLast.bit + rLast.n) \div 8)

C18_Witness ==
    /\ rPc = "ready"
    /\ rLast.op = "read_bits"
    /\ rLast.n = 8
    /\ rLast.bit = 3
    /\ rLast.before = 0
    /\ rLast.after = 1
    /\ rBit = 3

----------------------------------------------------------------------------
(* Claims about the annotations of a decoded file (SpecAnnot) *)

\* C19: for every schema that decodes, CE included, the returned mesh's
\* splines are exactly the splines parsed from the envelope, in document
\* order and unmodified; none is dropped and none is added.
C19_SplinesPassThrough ==
    lPc = "returned" => ret.splines = parse_splines(env.splines, <<>>).list

\* The Facets colour attribute is the decimal text of a 24-bit colour.
ColorGiven == \E c \in ColorPool : DecimalStr(c) = env.facets_color

ColorDenoted == CHOOSE c \in ColorPool : DecimalStr(c) = env.facets_color

\* C20: when the face data carries no face-colour stream and the Facets
\* element has a color attribute c in 0..0xFFFFFF, 0 included, the returned
\* mesh's face_colors has exactly face_count rows, each equal to
\* ((c >> 16) & 0xFF, (c >> 8) & 0xFF, c & 0xFF).
C20_DefaultFaceColor ==
    (lPc = "returned" /\ env.face_colors = None /\ ColorGiven)
        => /\ Len(ret.face_colors) = Declared(env.facet_count)
           /\ \A i \in DOMAIN ret.face_colors :
                 ret.face_colors[i] =
                    <<(ColorDenoted \div (2 ^ 16)) % 256,
                      (ColorDenoted \div (2 ^ 8)) % 256,
                      ColorDenoted % 256>>

\* A file of two faces whose Facets colour is "0" was decoded: both faces
\* are black.
C20_Witness ==
    /\ lPc = "returned"
    /\ env.face_colors = None
    /\ env.facets_color = <<48>>
    /\ Len(ret.faces) = 2
    /\ ret.face_colors = <<<<0, 0, 0>>, <<0, 0, 0>>>>

----------------------------------------------------------------------------
(* Claims about the order of a CE decode (SpecCE) *)

CEEvents ==
    {"derive_key", "decrypt:vertex", "integrity", "decrypt:texture_coords",
     "decrypt:vertex_colors", "decrypt:texture_image", "cc:parse"}

\* What CESchemaParser.parse has done so far, in order
CEDone == SelectSeq(lTrace, LAMBDA e : e \in CEEvents)

CEUpToCheck == <<"derive_key", "decrypt:vertex", "integrity">>

\* The steps of a complete CE decode of the envelope
CEAllSteps ==
    CEUpToCheck
        \o (IF env.perVertexTextureCoord = NoElement THEN <<>>
            ELSE <<"decrypt:texture_coords">>)
        \o (IF env.vertexColorSet = NoElement THEN <<>> ELSE <<"decrypt:vertex_colors">>)
        \o [i \in DOMAIN env.images |-> "decrypt:texture_image"]
        \o <<"cc:parse">>

IsPrefix(s, t) == Len(s) <= Len(t) /\ s = SubSeq(t, 1, Len(s))

\* The decrypted vertex bytes do not match the check value.
IntegrityFails ==
    cvSet /\ ce.vertex # None /\ Reverse(adler32(ce.vertex)) # env.check_value

InCEParse ==
    lPc \in {"parse", "ce_vertex", "ce_check", "ce_texcoords", "ce_colors",
             "ce_images", "ce_super"}

CEOrderNow ==
    /\ IsPrefix(CEDone, CEAllSteps)
    /\ lPc \in {"counts", "returned"} => CEDone = CEAllSteps
    /\ (IntegrityFails /\ "integrity" \in SeqToSet(CEDone))
          => /\ CEDone = CEUpToCheck
             /\ lPc = "raised"
             /\ ce.texture_coords = None
             /\ ce.vertex_colors = None
             /\ ce.texture_images = <<>>
             /\ result = NoMesh

\* C27: a CE decode derives the key, decrypts the vertex blob, checks its
\* integrity, decrypts the texture coordinates, the vertex colours and the
\* texture images, then runs the CC decoder, in this order; when the
\* integrity check fails nothing else is decrypted and the CC decoder is not
\* run; the caller's context is never modified.
C27_CEOrder == []CEOrderNow /\ [][InCEParse => ctx' = ctx]_vars

\* The integrity check failed on a file that has texture coordinates and
\* texture images left to decrypt.
C27_Witness ==
    /\ lErr = "HPSEncryptionError"
    /\ CEDone = CEUpToCheck
    /\ env.perVertexTextureCoord # NoElement
    /\ Len(env.images) > 0

----------------------------------------------------------------------------
(* Claims about the loader's texture image list (SpecAnnot) *)

FirstPathOf(e) == CHOOSE q \in e.paths : \A r \in e.paths : q <= r

PastImages ==
    lPc \in {"splines", "context", "parse", "ce_vertex", "ce_check", "ce_texcoords",
             "ce_colors", "ce_images", "ce_super", "counts", "returned"}

\* C28: the loader's texture_images holds every element that one of the four
\* paths matches exactly once, ordered by the first path that matches it and
\* then by document order; the element is treated as encrypted exactly when
\* the schema is CE and that first path is an encryptable one, so an element
\* that only .//TextureImages/TextureImage matches is never encrypted.
C28_TextureImageList ==
    PastImages =>
        /\ Len(loc.texture_images) = Len(env.images)
        /\ \A i \in DOMAIN loc.texture_images :
              LET e == ImagesInOrder[i]
                  blob == loc.texture_images[i]
              IN  /\ blob.data = e.elem.bytes
                  /\ blob.enc <=> (env.schema = "CE" /\ FirstPathOf(e) \in {1, 2, 3})
                  /\ e.paths = {4} => ~blob.enc

\* A CE file whose first image is matched by the fourth path only and whose
\* second image by the third and the fourth: the list has the second image
\* first, encrypted, then the first image, plain.
C28_Witness ==
    /\ lPc = "splines"
    /\ env.schema = "CE"
    /\ Len(env.images) = 2
    /\ env.images[1].paths = {4}
    /\ env.images[2].paths = {3, 4}
    /\ loc.texture_images[1].enc /\ loc.texture_images[1].data = PayloadOf(3)
    /\ ~loc.texture_images[2].enc /\ loc.texture_images[2].data = PayloadOf(4)

----------------------------------------------------------------------------
(* Claims about the CC face stream (SpecStrip) *)

\* The index every delta-coded number of the stream names, in stream order
sIdx == IndicesNamed(StreamRaws(sCmds), -1)

\* The number of delta-coded numbers before opcode j
RawsBefore(j) == Len(StreamRaws(SubSeq(sCmds, 1, j - 1)))

\* Opcode k is the NEW_STRIP whose strip the EXTEND at j continues.
StartsStripOf(k, j) ==
    /\ k < j
    /\ sCmds[k].op = "NEW_STRIP"
    /\ \A i \in (k + 1)..j : sCmds[i].op = "EXTEND"

HasStrip(j) == \E k \in 1..j : StartsStripOf(k, j)

\* The face of opcode j, from the indices of its strip: the strip
\* v0 v1 v2 e1 e2 .. gives (v0, v1, v2), (v1, v2, e1), (e1, v2, e2), ..
FaceOfOpcode(j) ==
    IF sCmds[j].op = "NEW_STRIP"
    THEN <<sIdx[RawsBefore(j) + 1], sIdx[RawsBefore(j) + 2], sIdx[RawsBefore(j) + 3]>>
    ELSE LET k == CHOOSE k \in 1..j : StartsStripOf(k, j)
             m == j - k
             o == RawsBefore(k)
         IN  IF m % 2 = 1
             THEN <<sIdx[o + m + 1], sIdx[o + m + 2], sIdx[o + m + 3]>>
             ELSE <<sIdx[o + m + 2], sIdx[o + m + 1], sIdx[o + m + 3]>>

Emitting(n) == SelectSeq([j \in 1..n |-> j], LAMBDA j : sCmds[j].op # "RESTART")

StripNow ==
    /\ sSt.err = "none" =>
          /\ \A j \in 1..sPos : sCmds[j].op = "EXTEND" => HasStrip(j)
          /\ sSt.faces = [i \in DOMAIN Emitting(sPos) |-> FaceOfOpcode(Emitting(sPos)[i])]
    /\ sSt.err = "NoActiveStrip" =>
          /\ sCmds[sPos].op = "EXTEND" /\ ~HasStrip(sPos)
          /\ Len(sSt.faces) = Len(Emitting(sPos - 1))

\* What one opcode does to the strip state (a, b, parity) it finds
StripChange ==
    LET cmd == sCmds[sPos + 1]
        new == sSt'.faces[Len(sSt'.faces)]
    IN  /\ (cmd.op = "EXTEND" /\ sSt'.err = "none") =>
              /\ sSt.active
              /\ Len(sSt'.faces) = Len(sSt.faces) + 1
              /\ new = IF sSt.parity = 0 THEN <<sSt.a, sSt.b, sSt'.b>>
                                         ELSE <<sSt.b, sSt.a, sSt'.b>>
              /\ sSt'.a = sSt.b
              /\ sSt'.parity = 1 - sSt.parity
              /\ sSt'.active
        /\ (cmd.op = "NEW_STRIP" /\ sSt'.err = "none") =>
              /\ Len(sSt'.faces) = Len(sSt.faces) + 1
              /\ sSt'.a = new[2] /\ sSt'.b = new[3] /\ sSt'.parity = 0
              /\ sSt'.active
        /\ cmd.op = "RESTART" =>
              /\ ~sSt'.active
              /\ sSt'.faces = sSt.faces
        /\ (cmd.op = "EXTEND" /\ ~sSt.active) =>
              /\ sSt'.err = "NoActiveStrip"
              /\ sSt'.faces = sSt.faces

----------------------------------------------------------------------------
(* Claims about face_colors_to_vertex_colors (SpecColor) *)

\* The corners (face, corner) that reference vertex v
CornersAt(v) == {fc \in (1..Len(fcFaces)) \X (1..3) : fcFaces[fc[1]][fc[2]] = v}

RECURSIVE ChannelSum(_, _)
ChannelSum(corners, ch) ==
    IF corners = {} THEN 0
    ELSE LET fc == CHOOSE x \in corners : TRUE
         IN  fcColors[fc[1]][ch] + ChannelSum(corners \ {fc}, ch)

\* C26: face_colors_to_vertex_colors returns one colour per vertex; each
\* channel of a vertex referenced by k >= 1 face corners is the mean, over
\* those corners, of the colours of their faces, truncated to an integer,
\* and a vertex referenced by no face gets (0, 0, 0).
C26_VertexColorMean ==
    fcPc = "done" =>
        /\ Len(fcOut) = fcVerts
        /\ \A v \in 0..(fcVerts - 1) :
              LET k == Cardinality(CornersAt(v))
              IN  IF k = 0 THEN fcOut[v + 1] = <<0, 0, 0>>
                  ELSE \A ch \in 1..3 :
                         /\ fcOut[v + 1][ch] * k <= ChannelSum(CornersAt(v), ch)
                         /\ ChannelSum(CornersAt(v), ch) < (fcOut[v + 1][ch] + 1) * k

\* A vertex shared by two faces of different colours got a mean with a
\* dropped half, one vertex is counted twice by one face, and one vertex is
\* referenced by no face.
C26_Witness ==
    /\ fcPc = "done"
    /\ fcFaces = <<<<0, 1, 2>>, <<2, 2, 0>>>>
    /\ fcColors = <<<<255, 128, 64>>, <<0, 0, 0>>>>
    /\ fcVerts = 4
    /\ fcOut = <<<<127, 64, 32>>, <<255, 128, 64>>, <<85, 42, 21>>, <<0, 0, 0>>>>

----------------------------------------------------------------------------
(* Claims about deduplicate_vertices_for_uv (SpecDedup) *)

DedupCorners == (1..Len(duFaces)) \X (1..3)

\* The (original vertex index, UV) pair of a corner
PairAt(fc) == <<duFaces[fc[1]][fc[2]], duUV[fc[1]][fc[2]]>>

NewIndexAt(fc) == duOut[3][fc[1]][fc[2]]

\* C30: deduplicate_vertices_for_uv returns as many faces as it was given
\* and as many vertices and UVs as there are distinct (original vertex
\* index, UV) pairs over the corners; every new index is below that number;
\* two corners share a new index exactly when they share the original index
\* and the UV; and the new vertex and UV of a corner are the original
\* vertex and the UV of that corner.
C30_DedupForUV ==
    duPc = "done" =>
        LET n == Cardinality({PairAt(fc) : fc \in DedupCorners})
        IN  /\ Len(duOut[3]) = Len(duFaces)
            /\ Len(duOut[1]) = n /\ Len(duOut[2]) = n
            /\ \A fc \in DedupCorners : 0 <= NewIndexAt(fc) /\ NewIndexAt(fc) < n
            /\ \A p, q \in DedupCorners : NewIndexAt(p) = NewIndexAt(q) <=> PairAt(p) = PairAt(q)
            /\ \A fc \in DedupCorners :
                  /\ duOut[1][NewIndexAt(fc) + 1] = duVerts[PairAt(fc)[1] + 1]
                  /\ duOut[2][NewIndexAt(fc) + 1] = PairAt(fc)[2]

\* Two faces on the same three vertices: vertex 0 comes with two UVs and is
\* split in two, the pairs of vertices 1 and 2 recur and are reused.
C30_Witness ==
    /\ duPc = "done"
    /\ duFaces = <<<<0, 1, 2>>, <<0, 2, 1>>>>
    /\ duUV = <<<<<<0, 0>>, <<2, 0>>, <<0, 2>>>>, <<<<1, 1>>, <<0, 2>>, <<2, 0>>>>>>
    /\ duOut[3] = <<<<0, 1, 2>>, <<3, 2, 1>>>>
    /\ Len(duOut[1]) = 4

----------------------------------------------------------------------------
(* Claims about load_encryption_key (SpecArg) *)

\* The key string the call converts, without its surrounding whitespace
KeyGiven == Strip(IF kaArg # None THEN kaArg ELSE kaEnv)

\* The string is a list of decimal byte values separated by commas.
IsCommaDecimal(s) == COMMA \in SeqToSet(s) /\ CommaBytes(s) # <<BadInt>>

\* The string is hexadecimal, with or without the prefix 0x.
IsHex(s) == FromHex(IF HasPrefix0x(s) THEN SubSeq(s, 3, Len(s)) ELSE s) # <<BadInt>>

\* C22: a key string is converted by the first applicable of comma-separated
\* decimal byte values, hexadecimal (optionally prefixed 0x) and otherwise
\* the ISO-8859-1 bytes of the string; a string that is not valid in an
\* earlier encoding is interpreted by the next one.
C22_KeyEncodings ==
    (kaPc = "done" /\ (kaArg # None \/ kaEnv # None)) =>
        /\ kaErr = "none"
        /\ kaOut = IF IsCommaDecimal(KeyGiven) THEN CommaBytes(KeyGiven)
                   ELSE IF IsHex(KeyGiven)
                        THEN FromHex(IF HasPrefix0x(KeyGiven) THEN SubSeq(KeyGiven, 3, Len(KeyGiven)) ELSE KeyGiven)
                        ELSE Latin1Encode(KeyGiven)

----------------------------------------------------------------------------
(* Claims about the exporters (SpecExport) *)

\* C23: export_mesh uses the explicitly given format whatever the suffix of
\* the output path; with none given it takes the format from the suffix,
\* whatever its case; for an unsupported suffix it raises ValueError before
\* an exporter exists, and no file is written.
C23_FormatSelection ==
    (xVia = "export_mesh" /\ xPc \in {"export", "done"}) =>
        IF xFormat # None
        THEN xErr = "none" /\ xExporter.kind = xFormat
        ELSE IF \E f \in ExportFormat : Lower(xPath.suffix) = <<46>> \o f
        THEN xErr = "none" /\ <<46>> \o xExporter.kind = Lower(xPath.suffix)
        ELSE /\ xErr = "ValueError" /\ xPc = "done"
             /\ xExporter = NoExporter
             /\ xFiles = {}

\* export_mesh wrote an STL file to a path ending in ".STL".
C23_Witness ==
    /\ xVia = "export_mesh" /\ xPc = "done"
    /\ xFormat = None
    /\ xPath.suffix = <<46, 83, 84, 76>>
    /\ xErr = "none"
    /\ \E f \in xFiles : f.kind = "stl"

\* The format a call settles on, given explicitly or by the suffix
FormatAsked == IF xFormat # None THEN xFormat ELSE from_extension(xPath)

\* The exporter of that format constructed directly with the call's options
DirectExporter ==
    IF FormatAsked = FormatSTL THEN STLExporter(xOpts.binary)
    ELSE IF FormatAsked = FormatOBJ
         THEN OBJExporter(xOpts.material, xOpts.include_colors, xOpts.include_textures)
         ELSE PLYExporter(xOpts.binary, xOpts.include_colors, xOpts.include_textures)

\* C24: HPSMesh.export and export_mesh forward every option they accept
\* (binary, include_colors, include_textures, material) to the exporter of
\* the format, so that what they write is what that exporter, constructed
\* directly with the same options, writes; with include_colors false a PLY
\* or OBJ has no colour data.
C24_OptionsForwarded ==
    (xVia \in {"HPSMesh.export", "export_mesh"} /\ xPc = "done" /\ FormatAsked # <<BadInt>>) =>
        /\ xErr = "none"
        /\ xFiles = ExporterFiles(DirectExporter, xMesh, xPath)
        /\ ~xOpts.include_colors => \A f \in xFiles : f.colors \in {"none", "texture"}

SuffixOBJ == <<46, 111, 98, 106>>
SuffixPNG == <<46, 112, 110, 103>>

\* C25: a mesh with a texture image and UVs exported to <stem>.obj with
\* textures enabled gives <stem>.obj, <stem>.mtl and <stem>.png; the OBJ
\* names <stem>.mtl as its mtllib and the MTL names <stem>.png as its
\* map_Kd; every file referenced is a file written.
C25_TexturedOBJ ==
    (/\ xPc = "done" /\ xErr = "none"
     /\ xExporter.kind = FormatOBJ /\ xExporter.include_textures
     /\ xMesh.textures /\ xMesh.uv
     /\ xPath.suffix = SuffixOBJ) =>
        /\ {f.name : f \in xFiles} = {xPath.stem \o SuffixOBJ, xPath.stem \o SuffixMTL, xPath.stem \o SuffixPNG}
        /\ \A f \in xFiles : f.kind = "obj" => f.ref = xPath.stem \o SuffixMTL
        /\ \A f \in xFiles : f.kind = "mtl" => f.ref = xPath.stem \o SuffixPNG
        /\ \A f \in xFiles : f.ref # <<>> => f.ref \in {g.name : g \in xFiles}

----------------------------------------------------------------------------
(* Claims about the command line (SpecCli) *)

\* C21: the export command returns 0 only when the file was decoded and
\* the output written, and returns 1 after a diagnostic on standard error
\* for every decode or I/O failure; no failure leaves it as an uncaught
\* exception.
C21_ExitCodes ==
    cliPc = "done" =>
        /\ cliUncaught = "none"
        /\ \/ cliExit = 0 /\ lPc = "returned" /\ cliWritten
           \/ cliExit = 1 /\ cliStderr

=============================================================================
